---- MODULE Spec2Model ----
(***************************************************************************)
(* A model of the blconf/xfconf client channel code                        *)
(* (src/gsettings-backend/xfconf-gsettings-backend.c) and of the daemon's  *)
(* main (src/xfconfd/main.c).                                              *)
(*                                                                         *)
(* The module holds several state machines over disjoint groups of        *)
(* variables; each specification runs one machine and leaves the others   *)
(* in their initial state:                                                 *)
(*   SpecReg     the singleton registry and blconf_channel_constructor,   *)
(*               run by several threads                                    *)
(*   SpecRouter  blconf_channel_property_changed on one channel           *)
(*   SpecBackend the GSettings backend: its pending-write table, its       *)
(*               subscriptions and the change events of its channel        *)
(*   SpecChan    one channel over its cache: set, get, the change events   *)
(*   SpecVal     the value bridge on one property: the set and get         *)
(*               families for scalars, value arrays and structs            *)
(*   SpecOps     one channel and its collaborators: which calls each       *)
(*               operation makes, with which path, and what it returns     *)
(***************************************************************************)
EXTENDS Integers, Sequences, FiniteSets, TLC

(***************************************************************************)
(* Bounds of the model.                                                    *)
(***************************************************************************)
MaxCalls == 2
MaxShutdowns == 1
MaxQueue == 2
MaxMembers == 2
MaxDisposes == 2
MaxSignals == 3
PipeCapacity == 2

(***************************************************************************)
(* The singleton registry machine.                                         *)
(***************************************************************************)
VARIABLES
    lock,          \* G_LOCK(__singletons): 0 when free, else the holding thread
    singletons,    \* __channel_singletons: [alloc, map]
    chan,          \* the BlconfChannel objects allocated so far
    caches,        \* the BlconfCache objects allocated so far
    thr,           \* each thread's position in blconf_channel_constructor
    calls,         \* constructor calls started so far
    epoch          \* _blconf_channel_shutdown calls so far

regVars == <<lock, singletons, chan, caches, thr, calls, epoch>>

(***************************************************************************)
(* The notification router machine: one channel and the raw change events *)
(* its cache hands to blconf_channel_property_changed.                     *)
(***************************************************************************)
VARIABLES
    rtChan,        \* the channel: [channel_name, property_base]
    rtEv,          \* the last raw event: [channel_name, property, value]
    rtOut          \* the property-changed signals the channel emitted for it

rtVars == <<rtChan, rtEv, rtOut>>

(***************************************************************************)
(* The GSettings backend machine (struct _XfconfGsettingsBackend).         *)
(***************************************************************************)
VARIABLES
    changed_prop,     \* pending writes: key -> origin_tag
    subscribed_prop,  \* the subscribed names
    beQueue,          \* change events the channel's cache has yet to deliver
    beLast,           \* the last backend call and the tables it started from
    beOut             \* the g_settings_backend_changed emissions of that call

beVars == <<changed_prop, subscribed_prop, beQueue, beLast, beOut>>

(***************************************************************************)
(* The channel machine: one BlconfChannel, the properties its cache holds  *)
(* and the change events the cache has queued.                             *)
(***************************************************************************)
VARIABLES
    chChan,        \* the channel: [channel_name, property_base]
    chStore,       \* what the cache holds: absolute path -> GValue
    chQueue,       \* change events the cache has yet to deliver
    chLast,        \* the last call on the channel and its outcome
    chSet          \* the last successful set, while nothing has replaced it

chVars == <<chChan, chStore, chQueue, chLast, chSet>>

(***************************************************************************)
(* The value bridge machine: one property of one channel.                  *)
(***************************************************************************)
VARIABLES
    vWire,         \* the GValue the cache holds for the property, or Unset
    vDesc,         \* the types and C values of the set that stored it
    vLast,         \* the last call: its arguments and what it handed on
    vOut           \* what the last get returned and wrote

vVars == <<vWire, vDesc, vLast, vOut>>

(***************************************************************************)
(* The operations machine: one channel, its cache and the daemon's lock    *)
(* policy.                                                                 *)
(***************************************************************************)
VARIABLES
    opChan,        \* the channel: [channel_name, property_base]
    opStore,       \* what the cache holds: absolute path -> GValue
    opLocked,      \* the absolute paths the system policy locks
    opLast         \* the last call: its arguments, the collaborator calls it
                   \* made and what it returned

opVars == <<opChan, opStore, opLocked, opLast>>

(***************************************************************************)
(* The daemon machine: main() of xfconfd, its signal pipe and the signals  *)
(* the process receives.                                                   *)
(***************************************************************************)
VARIABLES
    dPc,           \* where main() is, or how the process ended
    signal_pipe,   \* the descriptors' state and the words in the pipe
    signal_watch,  \* whether g_io_add_watch installed signal_pipe_io
    mloop,         \* the GMainLoop: "new", "running" or "quit"
    dStatus,       \* the status main() returned, once it has
    dSignals,      \* the signals delivered so far
    dQuit          \* a quit signal was delivered with the handler installed

dVars == <<dPc, signal_pipe, signal_watch, mloop, dStatus, dSignals, dQuit>>

vars == <<regVars, rtVars, beVars, chVars, vVars, opVars, dVars>>

\* what each machine leaves alone
notReg == <<rtVars, beVars, chVars, vVars, opVars, dVars>>
notRt == <<regVars, beVars, chVars, vVars, opVars, dVars>>
notBe == <<regVars, rtVars, chVars, vVars, opVars, dVars>>
notCh == <<regVars, rtVars, beVars, vVars, opVars, dVars>>
notV == <<regVars, rtVars, beVars, chVars, opVars, dVars>>
notOp == <<regVars, rtVars, beVars, chVars, vVars, dVars>>
notD == <<regVars, rtVars, beVars, chVars, vVars, opVars>>

\* the threads that call into the library
Threads == {1, 2}

ChannelNames == {"a", "b"}

\* channel_name == NULL (line 496)
NoName == "NULL"

NullChannel == 0

NullCache == 0

EmptyMap == [n \in ChannelNames |-> NullChannel]

IdleThread == [pc |-> "idle", name |-> NoName, is_singleton |-> TRUE,
               channel |-> NullChannel, epoch |-> 0]

\* a NULL gchar pointer
NullStr == <<"NULL">>

\* strings are sequences of characters
Root == <<"/">>
PFoo == <<"/", "f", "o", "o">>
PFooBar == <<"/", "f", "o", "o", "/", "b", "a", "r">>
PFoobar == <<"/", "f", "o", "o", "b", "a", "r">>
PFo == <<"/", "f", "o">>
POtherX == <<"/", "o", "/", "x">>

\* an unset GValue (G_TYPE_INVALID): the property was removed
Unset == [type |-> "invalid"]

RtNoEvent == [channel_name |-> NoName, property |-> NullStr, value |-> Unset]

RtIdle ==
    /\ rtChan = [channel_name |-> NoName, property_base |-> NullStr]
    /\ rtEv = RtNoEvent
    /\ rtOut = <<>>

RegIdle ==
    /\ lock = 0
    /\ singletons = [alloc |-> FALSE, map |-> EmptyMap]
    /\ chan = <<>>
    /\ caches = <<>>
    /\ thr = [t \in Threads |-> IdleThread]
    /\ calls = 0
    /\ epoch = 0

\* an empty GHashTable
EmptyTable == [k \in {} |-> "NULL"]

BeNoCall == [op |-> "none", channel_name |-> NoName, property |-> NullStr,
             changed |-> EmptyTable, subscribed |-> {}, warned |-> FALSE,
             accepted |-> FALSE, ret |-> FALSE,
             cause |-> [kind |-> "none", origin_tag |-> "NULL"]]

BeIdle ==
    /\ changed_prop = EmptyTable
    /\ subscribed_prop = {}
    /\ beQueue = <<>>
    /\ beLast = BeNoCall
    /\ beOut = <<>>

ChNoCall == [op |-> "none", property |-> NullStr, requested |-> "invalid",
             ret |-> FALSE, value |-> Unset]

ChNoSet == [valid |-> FALSE, property |-> NullStr, value |-> Unset, evpos |-> 0]

VNoTuple == [op |-> "none", scalar |-> FALSE, types |-> <<>>, cvals |-> <<>>]

VNoCall == [op |-> "none", tt |-> VNoTuple, requested |-> "invalid",
            called |-> FALSE, handed |-> Unset, ret |-> FALSE]

VNoOut == [ret |-> FALSE, value |-> Unset, outs |-> <<>>, mem |-> <<>>]

VIdle ==
    /\ vWire = Unset
    /\ vDesc = VNoTuple
    /\ vLast = VNoCall
    /\ vOut = VNoOut

OpNoCall == [op |-> "none", property |-> NullStr, recursive |-> FALSE,
             value |-> Unset, calls |-> <<>>, ok |-> FALSE, ret |-> "none"]

OpIdle ==
    /\ opChan = [channel_name |-> NoName, property_base |-> NullStr]
    /\ opStore = EmptyTable
    /\ opLocked = {}
    /\ opLast = OpNoCall

\* main() has not run a statement yet (signal_pipe is { -1, -1 }, line 59)
DIdle ==
    /\ dPc = "start"
    /\ signal_pipe = [state |-> "none", words |-> <<>>]
    /\ signal_watch = FALSE
    /\ mloop = "new"
    /\ dStatus = <<>>
    /\ dSignals = 0
    /\ dQuit = FALSE

ChIdle ==
    /\ chChan = [channel_name |-> NoName, property_base |-> NullStr]
    /\ chStore = EmptyTable
    /\ chQueue = <<>>
    /\ chLast = ChNoCall
    /\ chSet = ChNoSet

RegInit ==
    /\ RegIdle
    /\ VIdle
    /\ OpIdle
    /\ DIdle
    /\ RtIdle
    /\ BeIdle
    /\ ChIdle

\* G_LOCK(__singletons): blocks until the lock is free
G_LOCK_NoWait(t) ==
    lock' = t

G_LOCK(t) ==
    /\ lock = 0
    /\ lock' = t

\* the parent class's constructor with a blconf_channel_set_g_property that
\* drops PROP_IS_SINGLETON
NewChannel_FlagNotStored(name, is_singleton) ==
    [channel_name |-> name, is_singleton |-> FALSE,
     cache |-> NullCache, disposed |-> FALSE, ndispose |-> 0, live |-> TRUE,
     epoch |-> epoch]

\* the parent class's constructor: a fresh object with its construct
\* properties set by blconf_channel_set_g_property, and no cache yet
NewChannel(name, is_singleton) ==
    [channel_name |-> name, is_singleton |-> is_singleton,
     cache |-> NullCache, disposed |-> FALSE, ndispose |-> 0, live |-> TRUE,
     epoch |-> epoch]

\* blconf_channel_get (lines 821-827): is_singleton defaults to TRUE; the
\* constructor reads its parameters (lines 489-499) and takes the lock
\* (lines 501-502).  A NULL channel_name returns NULL at once.
Get(t) ==
    /\ thr[t].pc \in {"idle", "done"}
    /\ calls < MaxCalls
    /\ \E name \in ChannelNames \cup {NoName} :
         IF name = NoName
           THEN UNCHANGED <<thr, lock, calls>>
           ELSE /\ G_LOCK(t)
                /\ calls' = calls + 1
                /\ thr' = [thr EXCEPT ![t] =
                              [pc |-> "lookup", name |-> name,
                               is_singleton |-> TRUE,
                               channel |-> NullChannel, epoch |-> epoch]]
    /\ UNCHANGED <<singletons, chan, caches, epoch, notReg>>

\* blconf_channel_new (lines 851-858): is_singleton FALSE, so the
\* constructor builds a fresh object (lines 520-524)
New(t) ==
    /\ thr[t].pc \in {"idle", "done"}
    /\ calls < MaxCalls
    /\ calls' = calls + 1
    /\ \E name \in ChannelNames :
         /\ chan' = Append(chan, NewChannel(name, FALSE))
         /\ thr' = [thr EXCEPT ![t] =
                       [pc |-> "check", name |-> name, is_singleton |-> FALSE,
                        channel |-> Len(chan) + 1, epoch |-> epoch]]
    /\ UNCHANGED <<lock, singletons, caches, epoch, notReg>>

\* lines 504-509
Lookup(t) ==
    /\ thr[t].pc = "lookup"
    /\ IF ~singletons.alloc
         THEN /\ singletons' = [alloc |-> TRUE, map |-> EmptyMap]
              /\ thr' = [thr EXCEPT ![t].pc = "insert", ![t].epoch = epoch]
         ELSE /\ thr' = [thr EXCEPT ![t].pc = "insert",
                                    ![t].channel = singletons.map[thr[t].name],
                                    ![t].epoch = epoch]
              /\ UNCHANGED singletons
    /\ UNCHANGED <<lock, chan, caches, calls, epoch, notReg>>

\* lines 511-517
CreateInsert(t) ==
    /\ thr[t].pc = "insert"
    /\ IF thr[t].channel = NullChannel
         THEN /\ chan' = Append(chan, NewChannel(thr[t].name, TRUE))
              /\ singletons' = [singletons EXCEPT
                                   !.map[thr[t].name] = Len(chan) + 1]
              /\ thr' = [thr EXCEPT ![t].pc = "unlock",
                                    ![t].channel = Len(chan) + 1]
         ELSE /\ thr' = [thr EXCEPT ![t].pc = "unlock"]
              /\ UNCHANGED <<chan, singletons>>
    /\ UNCHANGED <<lock, caches, calls, epoch, notReg>>

\* line 519
Unlock(t) ==
    /\ thr[t].pc = "unlock"
    /\ lock' = 0
    /\ thr' = [thr EXCEPT ![t].pc = "check"]
    /\ UNCHANGED <<singletons, chan, caches, calls, epoch, notReg>>

\* the thread's channel pointer refers to an object that still exists
Valid(t) == chan[thr[t].channel].live

\* line 526: the read of channel->cache, outside the lock; when a cache is
\* there the constructor returns the channel (line 533)
CheckCache(t) ==
    /\ thr[t].pc = "check"
    /\ Valid(t)
    /\ thr' = [thr EXCEPT ![t].pc =
                  IF chan[thr[t].channel].cache = NullCache
                    THEN "newcache" ELSE "done"]
    /\ UNCHANGED <<lock, singletons, chan, caches, calls, epoch, notReg>>

\* line 527
NewCache(t) ==
    /\ thr[t].pc = "newcache"
    /\ Valid(t)
    /\ caches' = Append(caches, [chan |-> thr[t].channel,
                                 nprefetch |-> 0, nconnect |-> 0, nunref |-> 0])
    /\ chan' = [chan EXCEPT ![thr[t].channel].cache = Len(caches) + 1]
    /\ thr' = [thr EXCEPT ![t].pc = "prefetch"]
    /\ UNCHANGED <<lock, singletons, calls, epoch, notReg>>

\* line 528: the prefetch goes to whatever channel->cache holds now
Prefetch(t) ==
    /\ thr[t].pc = "prefetch"
    /\ Valid(t)
    /\ caches' = [caches EXCEPT ![chan[thr[t].channel].cache].nprefetch = @ + 1]
    /\ thr' = [thr EXCEPT ![t].pc = "connect"]
    /\ UNCHANGED <<lock, singletons, chan, calls, epoch, notReg>>

\* lines 529-533
Connect(t) ==
    /\ thr[t].pc = "connect"
    /\ Valid(t)
    /\ caches' = [caches EXCEPT ![chan[thr[t].channel].cache].nconnect = @ + 1]
    /\ thr' = [thr EXCEPT ![t].pc = "done"]
    /\ UNCHANGED <<lock, singletons, chan, calls, epoch, notReg>>

\* a thread between line 519 and line 533 touches a singleton that a
\* shutdown has freed meanwhile: undefined behaviour, the thread is lost
UseAfterFree(t) ==
    /\ thr[t].pc \in {"check", "newcache", "prefetch", "connect"}
    /\ ~Valid(t)
    /\ thr' = [thr EXCEPT ![t] = [IdleThread EXCEPT !.pc = "ub"]]
    /\ UNCHANGED <<lock, singletons, chan, caches, calls, epoch, notReg>>

\* blconf_channel_dispose (lines 591-606) on the channel object: the flag is
\* set whether or not it was set before
blconf_channel_dispose(c) ==
    [c EXCEPT !.disposed = TRUE, !.ndispose = @ + 1]

\* lines 596-602, on the caches: when the channel was not disposed before,
\* every handler of this channel on channel->cache is disconnected and that
\* cache is released; other caches are not touched
dispose_caches(cs, i) ==
    [k \in DOMAIN cs |->
        IF ~chan[i].disposed /\ chan[i].cache = k
          THEN [cs[k] EXCEPT !.nconnect = 0, !.nunref = @ + 1]
          ELSE cs[k]]

\* blconf_channel_dispose, run when the hash table drops the only reference:
\* the object is finalized afterwards
Disposed(c) ==
    [blconf_channel_dispose(c) EXCEPT !.live = FALSE]

\* g_object_run_dispose by the owner of a non-singleton channel: dispose runs,
\* the object stays (lines 591-606)
RunDispose(t) ==
    /\ thr[t].pc = "done"
    /\ ~thr[t].is_singleton
    /\ chan[thr[t].channel].live
    /\ chan[thr[t].channel].ndispose < MaxDisposes
    /\ chan' = [chan EXCEPT ![thr[t].channel] = blconf_channel_dispose(@)]
    /\ caches' = dispose_caches(caches, thr[t].channel)
    /\ UNCHANGED <<lock, singletons, thr, calls, epoch, notReg>>

\* the thread that calls _blconf_channel_shutdown
ShutdownThread == 3

\* line 627: _blconf_channel_shutdown takes the lock
ShutdownLock ==
    /\ epoch < MaxShutdowns
    /\ G_LOCK(ShutdownThread)
    /\ UNCHANGED <<singletons, chan, caches, thr, calls, epoch, notReg>>

\* every channel counts as held by the table
Registered_All(i) == TRUE

\* the channel is a value of the hash table, which holds its only reference
Registered(i) == \E n \in ChannelNames : singletons.map[n] = i

\* lines 628-632: under the lock, destroy the table if there is one, which
\* drops the reference to each channel it holds; then unlock
Shutdown ==
    /\ lock = ShutdownThread
    /\ lock' = 0
    /\ epoch' = epoch + 1
    /\ IF singletons.alloc
         THEN /\ chan' = [i \in DOMAIN chan |->
                            IF Registered(i) THEN Disposed(chan[i]) ELSE chan[i]]
              /\ caches' = [k \in DOMAIN caches |->
                            IF Registered(caches[k].chan)
                              THEN dispose_caches(caches, caches[k].chan)[k]
                              ELSE caches[k]]
              /\ singletons' = [alloc |-> FALSE, map |-> EmptyMap]
         ELSE UNCHANGED <<chan, caches, singletons>>
    /\ UNCHANGED <<thr, calls, notReg>>

RegNext ==
    \/ \E t \in Threads : Get(t)
    \/ \E t \in Threads : New(t)
    \/ \E t \in Threads : Lookup(t)
    \/ \E t \in Threads : CreateInsert(t)
    \/ \E t \in Threads : Unlock(t)
    \/ \E t \in Threads : CheckCache(t)
    \/ \E t \in Threads : NewCache(t)
    \/ \E t \in Threads : Prefetch(t)
    \/ \E t \in Threads : Connect(t)
    \/ \E t \in Threads : UseAfterFree(t)
    \/ \E t \in Threads : RunDispose(t)
    \/ ShutdownLock
    \/ Shutdown

SpecReg == RegInit /\ [][RegNext]_vars

(***************************************************************************)
(* The notification router.                                                *)
(***************************************************************************)

\* g_str_has_prefix(str, prefix)
g_str_has_prefix(str, prefix) ==
    /\ Len(prefix) <= Len(str)
    /\ SubSeq(str, 1, Len(prefix)) = prefix

\* lines 652-656: property += strlen(property_base); "/" when nothing is left
LocalPropertyNoRoot(base, property) ==
    IF base = NullStr THEN property
    ELSE SubSeq(property, Len(base) + 1, Len(property))

LocalProperty(base, property) ==
    IF base = NullStr THEN property
    ELSE IF Len(property) = Len(base) THEN Root
    ELSE SubSeq(property, Len(base) + 1, Len(property))

\* blconf_channel_property_changed: the signals emitted for one raw event
blconf_channel_property_changed(channel, channel_name, property, value) ==
    IF \/ channel_name # channel.channel_name
       \/ /\ channel.property_base # NullStr
          /\ ~g_str_has_prefix(property, channel.property_base)
      THEN <<>>
      ELSE <<[property |-> LocalProperty(channel.property_base, property),
              value |-> value]>>

RtBases == {NullStr, PFoo, PFooBar, Root}

RtProperties == {Root, PFoo, PFooBar, PFoobar, PFo, POtherX}

RtValues == {Unset, [type |-> "int", v |-> 5], [type |-> "string", v |-> "s"]}

RtInit ==
    /\ RegIdle
    /\ VIdle
    /\ OpIdle
    /\ DIdle
    /\ BeIdle
    /\ ChIdle
    /\ rtChan \in [channel_name : ChannelNames, property_base : RtBases]
    /\ rtEv = RtNoEvent
    /\ rtOut = <<>>

\* the cache's "property-changed" signal reaches the channel's handler
RtPropertyChanged ==
    /\ \E n \in ChannelNames, p \in RtProperties, v \in RtValues :
         /\ rtEv' = [channel_name |-> n, property |-> p, value |-> v]
         /\ rtOut' = blconf_channel_property_changed(rtChan, n, p, v)
    /\ UNCHANGED <<rtChan, notRt>>

RtNext == RtPropertyChanged

SpecRouter == RtInit /\ [][RtNext]_vars

(***************************************************************************)
(* The GSettings backend.                                                  *)
(***************************************************************************)

\* g_hash_table_replace / g_hash_table_remove on a table held as a function
g_hash_table_replace(table, key, val) ==
    [k \in (DOMAIN table) \cup {key} |-> IF k = key THEN val ELSE table[k]]

g_hash_table_remove(table, key) ==
    [k \in (DOMAIN table) \ {key} |-> table[k]]

\* a NULL gpointer
NullTag == "NULL"

BeTags == {NullTag, "t1"}

BeKeys == {PFoo, PFooBar}

BeNames == {PFoo, PFooBar}

BeProperties == {PFoo, PFooBar, POtherX}

\* the backend's channel: xfconf_channel_new(prg_name), no property base
BeChannel == [channel_name |-> "a", property_base |-> NullStr]

BeValue == [type |-> "int", v |-> 5]

\* the callback without the break at line 70: one emission for every
\* subscribed name that is a prefix
property_changed_cb_NoBreak(changed, subscribed, property) ==
    IF property \in DOMAIN changed
      THEN [emitted |-> <<[key |-> property, origin_tag |-> changed[property]]>>,
            changed |-> g_hash_table_remove(changed, property),
            warned |-> FALSE]
      ELSE LET n == Cardinality({name \in subscribed :
                                    g_str_has_prefix(property, name)})
           IN [emitted |-> [k \in 1..n |-> [key |-> property,
                                            origin_tag |-> NullTag]],
               changed |-> changed, warned |-> n = 0]

\* the handler with the two lookups in the other order
property_changed_cb_SubscribedFirst(changed, subscribed, property) ==
    IF \E name \in subscribed : g_str_has_prefix(property, name)
      THEN [emitted |-> <<[key |-> property, origin_tag |-> NullTag]>>,
            changed |-> changed, warned |-> FALSE]
      ELSE IF property \in DOMAIN changed
        THEN [emitted |-> <<[key |-> property, origin_tag |-> changed[property]]>>,
              changed |-> g_hash_table_remove(changed, property),
              warned |-> FALSE]
        ELSE [emitted |-> <<>>, changed |-> changed, warned |-> TRUE]

\* lines 44-79: the emissions, the pending-write table afterwards and
\* whether the "not expected" warning was logged
xfconf_gsettings_backend_property_changed_cb(changed, subscribed, property) ==
    IF property \in DOMAIN changed
      THEN [emitted |-> <<[key |-> property, origin_tag |-> changed[property]]>>,
            changed |-> g_hash_table_remove(changed, property),
            warned |-> FALSE]
      ELSE IF \E name \in subscribed : g_str_has_prefix(property, name)
        THEN [emitted |-> <<[key |-> property, origin_tag |-> NullTag]>>,
              changed |-> changed, warned |-> FALSE]
        ELSE [emitted |-> <<>>, changed |-> changed, warned |-> TRUE]

\* what made the cache report a change: a write of this backend with its
\* origin tag, a reset of this backend, or another client (history kept with
\* the event, the program does not have it)
BeCause(kind, origin_tag) == [kind |-> kind, origin_tag |-> origin_tag]

BeNoCause == BeCause("none", NullTag)

\* the record of a backend call; the tables it started from are kept for
\* the change events only.  accepted: the value was converted and the channel
\* set returned TRUE; ret: what the call returned
BeCall(op, name, property) ==
    [op |-> op, channel_name |-> name, property |-> property,
     changed |-> IF op = "event" THEN changed_prop ELSE EmptyTable,
     subscribed |-> IF op = "event" THEN subscribed_prop ELSE {},
     warned |-> FALSE, accepted |-> FALSE, ret |-> FALSE, cause |-> BeNoCause]

BeInit ==
    /\ RegIdle
    /\ VIdle
    /\ OpIdle
    /\ DIdle
    /\ RtIdle
    /\ BeIdle
    /\ ChIdle

\* lines 144-169.  converted: xfconf_gvariant_to_gvalue returned a value;
\* ok: xfconf_channel_set_property returned TRUE, and the cache will report
\* the change
BeWrite ==
    /\ \E key \in BeKeys, origin_tag \in BeTags, converted \in BOOLEAN, ok \in BOOLEAN :
         /\ ok => converted /\ Len(beQueue) < MaxQueue
         /\ changed_prop' =
              IF ~converted THEN changed_prop
              ELSE IF ok THEN g_hash_table_replace(changed_prop, key, origin_tag)
              ELSE g_hash_table_remove(
                       g_hash_table_replace(changed_prop, key, origin_tag), key)
         /\ beQueue' =
              IF ok THEN Append(beQueue, [channel_name |-> BeChannel.channel_name,
                                          property |-> key, value |-> BeValue,
                                          cause |-> BeCause("write", origin_tag)])
              ELSE beQueue
         /\ beLast' = [BeCall("write", BeChannel.channel_name, key)
                         EXCEPT !.accepted = converted /\ ok, !.ret = FALSE]
    /\ beOut' = <<>>
    /\ UNCHANGED <<subscribed_prop, notBe>>

\* lines 119-131.  existed: the property was set, so that the cache will
\* report its removal
BeReset ==
    /\ \E key \in BeKeys, origin_tag \in BeTags, existed \in BOOLEAN :
         /\ existed => Len(beQueue) < MaxQueue
         /\ changed_prop' = g_hash_table_replace(changed_prop, key, origin_tag)
         /\ beQueue' =
              IF existed THEN Append(beQueue, [channel_name |-> BeChannel.channel_name,
                                               property |-> key, value |-> Unset,
                                               cause |-> BeCause("reset", NullTag)])
              ELSE beQueue
         /\ beLast' = BeCall("reset", BeChannel.channel_name, key)
    /\ beOut' = <<>>
    /\ UNCHANGED <<subscribed_prop, notBe>>

\* lines 179-190
BeSubscribe ==
    /\ \E name \in BeNames :
         /\ subscribed_prop' = subscribed_prop \cup {name}
         /\ beLast' = BeCall("subscribe", BeChannel.channel_name, name)
    /\ beOut' = <<>>
    /\ UNCHANGED <<changed_prop, beQueue, notBe>>

\* lines 192-203
BeUnsubscribe ==
    /\ \E name \in BeNames :
         /\ subscribed_prop' = subscribed_prop \ {name}
         /\ beLast' = BeCall("unsubscribe", BeChannel.channel_name, name)
    /\ beOut' = <<>>
    /\ UNCHANGED <<changed_prop, beQueue, notBe>>

\* another client changed a property: the cache will report it (one path
\* stands for the events of other channels, which line 645 drops)
BeRemoteChange ==
    /\ Len(beQueue) < MaxQueue
    /\ \E name \in ChannelNames, property \in BeProperties :
         /\ name # BeChannel.channel_name => property = PFoo
         /\ beQueue' = Append(beQueue, [channel_name |-> name, property |-> property,
                                        value |-> BeValue,
                                        cause |-> BeCause("remote", NullTag)])
    /\ UNCHANGED <<changed_prop, subscribed_prop, beLast, beOut, notBe>>

\* the cache delivers its oldest event: the channel's handler (lines
\* 636-660) filters and re-emits it, the backend's handler (lines 44-79,
\* connected at line 240) runs for each re-emitted signal
BeDeliver ==
    /\ beQueue # <<>>
    /\ LET ev == Head(beQueue)
           sigs == blconf_channel_property_changed(BeChannel, ev.channel_name,
                                                   ev.property, ev.value)
       IN /\ beQueue' = Tail(beQueue)
          /\ IF sigs = <<>>
               THEN /\ beLast' = BeCall("dropped", ev.channel_name, ev.property)
                    /\ beOut' = <<>>
                    /\ UNCHANGED changed_prop
               ELSE LET r == xfconf_gsettings_backend_property_changed_cb(
                                 changed_prop, subscribed_prop, sigs[1].property)
                    IN /\ beLast' = [BeCall("event", ev.channel_name, sigs[1].property)
                                       EXCEPT !.warned = r.warned, !.cause = ev.cause]
                       /\ beOut' = r.emitted
                       /\ changed_prop' = r.changed
    /\ UNCHANGED <<subscribed_prop, notBe>>

BeNext ==
    \/ BeWrite
    \/ BeReset
    \/ BeSubscribe
    \/ BeUnsubscribe
    \/ BeRemoteChange
    \/ BeDeliver

SpecBackend == BeInit /\ [][BeNext]_vars

(***************************************************************************)
(* The value bridge.  A C value is the tuple of its bytes, least           *)
(* significant first (a little-endian LP64 build); a GValue is a record    *)
(* [type, v]; a string GValue holds the string's content; a value array    *)
(* (GPtrArray of GValue) is a sequence of GValues.                         *)
(***************************************************************************)

\* the GTypes the bridge names, and one it does not know (G_TYPE_POINTER)
IntKinds == {"uchar", "char", "uint16", "int16", "uint", "int", "uint64", "int64"}

Kinds == IntKinds \cup {"float", "double", "boolean", "string"}

UnknownKind == "pointer"

\* sizeof(ctype) of the C type that holds a kind
Sizeof(kind) ==
    CASE kind \in {"uchar", "char"} -> 1
      [] kind \in {"uint16", "int16"} -> 2
      [] kind \in {"uint", "int", "float", "boolean"} -> 4
      [] kind \in {"uint64", "int64", "double", "string", "pointer"} -> 8

\* the ALIGNOF_ macro the struct code passes for a kind
Alignof(kind) ==
    CASE kind \in {"uchar", "char"} -> 1
      [] kind \in {"uint16", "int16"} -> 2
      [] kind \in {"uint", "int", "float", "boolean"} -> 4
      [] kind \in {"uint64", "int64", "double", "string", "pointer"} -> 8

\* the bytes of the integer n in a C object of the given size
Bytes(n, size) ==
    [j \in 1..size |-> IF j <= 4 THEN (n \div (256 ^ (j - 1))) % 256
                       ELSE IF n < 0 THEN 255 ELSE 0]

\* conversion of an unsigned / a signed C integer to a wider type
ZeroExtend(bytes, size) ==
    [j \in 1..size |-> IF j <= Len(bytes) THEN bytes[j] ELSE 0]

SignExtend(bytes, size) ==
    [j \in 1..size |-> IF j <= Len(bytes) THEN bytes[j]
                       ELSE IF bytes[Len(bytes)] >= 128 THEN 255 ELSE 0]

\* conversion of a C integer to a narrower type: (guint16)x, (gint16)x
Truncate(bytes, size) == SubSeq(bytes, 1, size)

\* strings: the caller's strings live at fixed addresses, g_strdup and
\* g_value_dup_string return a fresh allocation with the same content
NullContent == "<NULL>"

BadUtf8 == "<\\377>"

Strings == {"s", ""}

StaticAddr(content) ==
    CASE content = "s" -> <<16, 16, 0, 0, 0, 0, 0, 0>>
      [] content = "" -> <<32, 16, 0, 0, 0, 0, 0, 0>>
      [] content = BadUtf8 -> <<48, 16, 0, 0, 0, 0, 0, 0>>
      [] OTHER -> <<0, 0, 0, 0, 0, 0, 0, 0>>

g_strdup(content) ==
    CASE content = "s" -> <<16, 32, 0, 0, 0, 0, 0, 0>>
      [] content = "" -> <<32, 32, 0, 0, 0, 0, 0, 0>>
      [] content = BadUtf8 -> <<48, 32, 0, 0, 0, 0, 0, 0>>
      [] OTHER -> <<0, 0, 0, 0, 0, 0, 0, 0>>

\* the content a gchar * points at
Deref(ptr) ==
    CASE ptr[1] = 16 -> "s"
      [] ptr[1] = 32 -> ""
      [] ptr[1] = 48 -> BadUtf8
      [] OTHER -> NullContent

g_utf8_validate(content) == content # BadUtf8

\* the number a 32-bit signed / a 16-bit unsigned or signed C integer holds
NumS32(bytes) ==
    LET lo == bytes[1] + 256 * bytes[2]
        hi == bytes[3] + 256 * bytes[4]
    IN (IF hi >= 32768 THEN hi - 65536 ELSE hi) * 65536 + lo

NumU16(bytes) == bytes[1] + 256 * bytes[2]

NumS16(bytes) ==
    IF bytes[2] >= 128 THEN NumU16(bytes) - 65536 ELSE NumU16(bytes)

\* the number a 32-bit unsigned C integer holds, as <<high half, low half>>
NumU32(bytes) == <<bytes[3] + 256 * bytes[4], bytes[1] + 256 * bytes[2]>>

(***************************************************************************)
(* The channel over its cache.                                             *)
(***************************************************************************)

\* lines 310-313: g_strconcat(property_base, property) when a base is set
REAL_PROP(channel, property) ==
    IF channel.property_base # NullStr
      THEN (IF property = NullStr THEN channel.property_base
            ELSE channel.property_base \o property)
      ELSE property

\* the macro without the base
REAL_PROP_NoBase(channel, property) == property

\* the transforms registered for the 16-bit types: a uint read as uint16
\* and an int read as int16 are narrowed by truncation
blconf_transform_16bit(src, dest_type) ==
    [ok |-> TRUE, value |-> [type |-> dest_type, v |-> Truncate(src.v, 2)]]

\* the pairs of types whose transform is modelled
ModelledTransform(src_type, dest_type) ==
    \/ src_type = dest_type
    \/ src_type = "int" /\ dest_type = "string"
    \/ src_type = "string" /\ dest_type = "int"
    \/ src_type = "uint" /\ dest_type = "uint16"
    \/ src_type = "int" /\ dest_type = "int16"

\* g_value_transform(src, dest) for a dest initialised to dest_type: a copy
\* between equal types, "%d" from int to string, nothing from string to int
g_value_transform(src, dest_type) ==
    IF src.type = dest_type THEN [ok |-> TRUE, value |-> src]
    ELSE IF src.type = "int" /\ dest_type = "string"
      THEN [ok |-> TRUE, value |-> [type |-> "string", v |-> ToString(NumS32(src.v))]]
    ELSE IF \/ src.type = "uint" /\ dest_type = "uint16"
            \/ src.type = "int" /\ dest_type = "int16"
      THEN blconf_transform_16bit(src, dest_type)
    ELSE [ok |-> FALSE, value |-> Unset]

\* blconf_cache_set: on success the cache holds the value under the path
blconf_cache_set(store, real_property, value) ==
    g_hash_table_replace(store, real_property, value)

\* blconf_cache_lookup: found or not found, and the value held
blconf_cache_lookup(store, real_property) ==
    IF real_property \in DOMAIN store
      THEN [ret |-> TRUE, value |-> store[real_property]]
      ELSE [ret |-> FALSE, value |-> Unset]

\* lines 684-724, reading with the store through REAL_PROP_NoBase
blconf_channel_get_internal_NoBase(channel, store, property, requested) ==
    LET r == blconf_cache_lookup(store, REAL_PROP_NoBase(channel, property))
    IN IF ~r.ret THEN r
       ELSE IF requested = "invalid" THEN r
       ELSE LET t == g_value_transform(r.value, requested)
            IN [ret |-> t.ok, value |-> t.value]

\* lines 684-724.  requested: G_VALUE_TYPE(value) on entry
blconf_channel_get_internal(channel, store, property, requested) ==
    LET r == blconf_cache_lookup(store, REAL_PROP(channel, property))
    IN IF ~r.ret THEN r
       ELSE IF requested = "invalid" THEN r
       ELSE LET t == g_value_transform(r.value, requested)
            IN [ret |-> t.ok, value |-> t.value]

ChBases == {NullStr, PFoo}

ChProperties == {PFoo, PFooBar}

ChValues == {[type |-> "int", v |-> Bytes(5, 4)], [type |-> "string", v |-> "s"]}

ChRequested == {"invalid", "int", "string"}

ChInit ==
    /\ RegIdle
    /\ VIdle
    /\ OpIdle
    /\ DIdle
    /\ RtIdle
    /\ BeIdle
    /\ chChan \in [channel_name : {"a"}, property_base : ChBases]
    /\ chStore = EmptyTable
    /\ chQueue = <<>>
    /\ chLast = ChNoCall
    /\ chSet = ChNoSet

\* lines 663-682.  ok: blconf_cache_set returned TRUE; the cache then holds
\* the value and will report the change
ChSet ==
    /\ \E property \in ChProperties, value \in ChValues, ok \in BOOLEAN :
         LET real_property == REAL_PROP(chChan, property)
         IN /\ ok => Len(chQueue) < MaxQueue
            /\ chStore' = IF ok THEN blconf_cache_set(chStore, real_property, value)
                          ELSE chStore
            /\ chQueue' = IF ok THEN Append(chQueue,
                                       [channel_name |-> chChan.channel_name,
                                        property |-> real_property, value |-> value])
                          ELSE chQueue
            /\ chLast' = [op |-> "set", property |-> property,
                          requested |-> "invalid", ret |-> ok, value |-> value]
            /\ chSet' = IF ok THEN [valid |-> TRUE, property |-> property,
                                    value |-> value, evpos |-> Len(chQueue) + 1]
                        ELSE ChNoSet
    /\ UNCHANGED <<chChan, notCh>>

\* lines 684-724
ChGet ==
    /\ \E property \in ChProperties, requested \in ChRequested :
         LET r == blconf_channel_get_internal(chChan, chStore, property, requested)
         IN chLast' = [op |-> "get", property |-> property,
                       requested |-> requested, ret |-> r.ret, value |-> r.value]
    /\ UNCHANGED <<chChan, chStore, chQueue, chSet, notCh>>

\* another client sets a property of the channel: the cache learns of it
\* and will report the change
ChRemoteChange ==
    /\ Len(chQueue) < MaxQueue
    /\ \E property \in ChProperties, value \in ChValues :
         LET real_property == REAL_PROP(chChan, property)
         IN /\ chStore' = blconf_cache_set(chStore, real_property, value)
            /\ chQueue' = Append(chQueue, [channel_name |-> chChan.channel_name,
                                           property |-> real_property,
                                           value |-> value])
            /\ chSet' = IF chSet.valid /\ chSet.property = property
                          THEN ChNoSet ELSE chSet
    /\ UNCHANGED <<chChan, chLast, notCh>>

\* the cache delivers its oldest event to the channel's handler (lines
\* 636-660)
ChDeliver ==
    /\ chQueue # <<>>
    /\ LET ev == Head(chQueue)
           sigs == blconf_channel_property_changed(chChan, ev.channel_name,
                                                   ev.property, ev.value)
       IN chLast' = IF sigs = <<>>
                      THEN [ChNoCall EXCEPT !.op = "dropped"]
                      ELSE [op |-> "event", property |-> sigs[1].property,
                            requested |-> "invalid", ret |-> TRUE,
                            value |-> sigs[1].value]
    /\ chQueue' = Tail(chQueue)
    /\ chSet' = IF chSet.valid /\ chSet.evpos > 0
                  THEN [chSet EXCEPT !.evpos = @ - 1] ELSE chSet
    /\ UNCHANGED <<chChan, chStore, notCh>>

ChNext ==
    \/ ChSet
    \/ ChGet
    \/ ChRemoteChange
    \/ ChDeliver

SpecChan == ChInit /\ [][ChNext]_vars

(***************************************************************************)
(* The value bridge: the set family.                                       *)
(***************************************************************************)

\* g_value_set_<kind>(val, c): what the GValue holds for the C value c
g_value_set(kind, c) ==
    CASE kind = "boolean" ->
           [type |-> kind,
            v |-> IF c = <<0, 0, 0, 0>> THEN c ELSE <<1, 0, 0, 0>>]
      [] kind = "string" -> [type |-> kind, v |-> Deref(c)]
      [] OTHER -> [type |-> kind, v |-> c]

\* g_value_get_<kind>(val), g_value_dup_string(val)
g_value_get(val) ==
    IF val.type = "string"
      THEN (IF val.v = NullContent THEN StaticAddr(NullContent) ELSE g_strdup(val.v))
      ELSE val.v

\* a GPtrArray *: NULL, or the array it points at
NullArray == [null |-> TRUE, arr |-> <<>>]

PtrArray(arr) == [null |-> FALSE, arr |-> arr]

Is16Bit(v) == v.type \in {"uint16", "int16"}

\* lines 1598-1606 and 747-756: a uint16 becomes a uint, an int16 an int,
\* by the C conversion of the 16-bit value to guint / gint
Widen16(v) ==
    IF v.type = "uint16" THEN [type |-> "uint", v |-> ZeroExtend(v.v, 4)]
    ELSE IF v.type = "int16" THEN [type |-> "int", v |-> SignExtend(v.v, 4)]
    ELSE v

\* a fixup that stops at the first element
blconf_fixup_16bit_ints_FirstOnly(arr) ==
    IF Len(arr) = 0 \/ ~Is16Bit(arr[1]) THEN NullArray
    ELSE PtrArray([i \in 1..Len(arr) |-> IF i = 1 THEN Widen16(arr[i]) ELSE arr[i]])

\* lines 726-766: NULL when no element is 16-bit, else a new array
blconf_fixup_16bit_ints(arr) ==
    IF ~\E i \in 1..Len(arr) : Is16Bit(arr[i]) THEN NullArray
    ELSE PtrArray([i \in 1..Len(arr) |-> Widen16(arr[i])])

\* the outcome of a set call: ret, and the GValue handed to
\* blconf_channel_set_internal (Unset when the call returned before)
SetRejected == [called |-> FALSE, handed |-> Unset]

SetHanded(val) == [called |-> TRUE, handed |-> val]

\* lines 1581-1627
blconf_channel_set_property(value) ==
    IF value.type = "invalid" THEN SetRejected
    ELSE IF value.type = "string" /\ value.v # NullContent /\ ~g_utf8_validate(value.v)
      THEN SetRejected
    ELSE IF Is16Bit(value) THEN SetHanded(Widen16(value))
    ELSE IF value.type = "array"
      THEN LET arr_new == blconf_fixup_16bit_ints(value.v)
           IN IF ~arr_new.null
                THEN SetHanded([type |-> "array", v |-> arr_new.arr])
                ELSE SetHanded(value)
    ELSE SetHanded(value)

\* lines 1983-2008
blconf_channel_set_arrayv(values) ==
    LET values_new == blconf_fixup_16bit_ints(values)
    IN SetHanded([type |-> "array",
                  v |-> IF ~values_new.null THEN values_new.arr ELSE values])

\* lines 1896-1962: the GValue built for one (type, pointer to C value)
\* pair of the argument list
ArrayElement(kind, c) ==
    IF kind = "uint16" THEN [type |-> "uint", v |-> ZeroExtend(c, 4)]
    ELSE IF kind = "int16" THEN [type |-> "int", v |-> SignExtend(c, 4)]
    ELSE g_value_set(kind, c)

\* lines 1879-1970: types and cvals are the argument list
blconf_channel_set_array_valist(types, cvals) ==
    IF Len(types) = 0 THEN SetRejected
    ELSE IF \E i \in 1..Len(types) : types[i] \notin Kinds THEN SetRejected
    ELSE blconf_channel_set_arrayv(
             [i \in 1..Len(types) |-> ArrayElement(types[i], cvals[i])])

\* an offset that is never rounded up
ALIGN_VAL_None(val, align) == val

\* line 308: the next multiple of align, a power of two, from val on
ALIGN_VAL(val, align) == ((val + (align - 1)) \div align) * align

\* the bytes of value_struct from cur_offset on, for sizeof(ctype)
ReadMem(mem, offset, size) == SubSeq(mem, offset + 1, offset + size)

WriteMem(mem, offset, c) ==
    SubSeq(mem, 1, offset) \o c \o SubSeq(mem, offset + Len(c) + 1, Len(mem))

\* lines 2452-2539: the loop over the members from member i on
RECURSIVE set_structv_loop(_, _, _, _, _)
set_structv_loop(value_struct, member_types, i, cur_offset, arr) ==
    IF i > Len(member_types) THEN PtrArray(arr)
    ELSE IF member_types[i] \notin Kinds THEN NullArray
    ELSE LET kind == member_types[i]
             offset == ALIGN_VAL(cur_offset, Alignof(kind))
             val == g_value_set(kind, ReadMem(value_struct, offset, Sizeof(kind)))
         IN set_structv_loop(value_struct, member_types, i + 1,
                             offset + Sizeof(kind), Append(arr, val))

\* lines 2434-2549
blconf_channel_set_structv(value_struct, member_types) ==
    IF Len(member_types) = 0 THEN SetRejected
    ELSE LET built == set_structv_loop(value_struct, member_types, 1, 0, <<>>)
         IN IF built.null THEN SetRejected
            ELSE blconf_channel_set_arrayv(built.arr)

(***************************************************************************)
(* The value bridge: the get family.  found is the outcome of              *)
(* blconf_channel_get_internal on an unset GValue: [ret, value].           *)
(***************************************************************************)

\* the elements converted up to the first that cannot be
blconf_transform_array_Partial(arr_src, gtype) ==
    IF Len(arr_src) = 0 \/ gtype = "invalid" THEN NullArray
    ELSE LET bad == {i \in 1..Len(arr_src) :
                        /\ arr_src[i].type # gtype
                        /\ ~g_value_transform(arr_src[i], gtype).ok}
             n == IF bad = {} THEN Len(arr_src)
                  ELSE (CHOOSE i \in bad : \A j \in bad : i <= j) - 1
         IN PtrArray([i \in 1..n |->
                         IF arr_src[i].type = gtype THEN arr_src[i]
                         ELSE g_value_transform(arr_src[i], gtype).value])

\* lines 768-803: every element in the requested type, or NULL
blconf_transform_array(arr_src, gtype) ==
    IF Len(arr_src) = 0 \/ gtype = "invalid" THEN NullArray
    ELSE IF \E i \in 1..Len(arr_src) :
                /\ arr_src[i].type # gtype
                /\ ~g_value_transform(arr_src[i], gtype).ok
      THEN NullArray
    ELSE PtrArray([i \in 1..Len(arr_src) |->
                      IF arr_src[i].type = gtype THEN arr_src[i]
                      ELSE g_value_transform(arr_src[i], gtype).value])

\* lines 1513-1566.  value: the caller's GValue on entry; the value returned
\* is the caller's GValue on return
blconf_channel_get_property(found, value) ==
    IF ~found.ret THEN [ret |-> FALSE, value |-> value]
    ELSE IF value.type # "invalid" /\ value.type # found.value.type
      THEN IF found.value.type = "array"
             THEN LET arr == blconf_transform_array(found.value.v, value.type)
                  IN IF ~arr.null
                       THEN [ret |-> TRUE, value |-> [type |-> "array", v |-> arr.arr]]
                       ELSE [ret |-> FALSE, value |-> value]
             ELSE LET t == g_value_transform(found.value, value.type)
                  IN [ret |-> t.ok, value |-> IF t.ok THEN t.value ELSE value]
    ELSE [ret |-> TRUE, value |-> found.value]

\* lines 1801-1829
blconf_channel_get_arrayv(found) ==
    IF ~found.ret THEN NullArray
    ELSE IF found.value.type # "array" THEN NullArray
    ELSE IF Len(found.value.v) = 0 THEN NullArray
    ELSE PtrArray(found.value.v)

\* a location the call has not written
Unwritten == <<>>

\* the store with a range check: a value that does not fit the 16-bit kind
\* is stored as the largest value of the kind
StoreAs_Clamped(kind, val) ==
    IF kind = "uint16" /\ NumU32(g_value_get(val))[1] # 0 THEN Bytes(65535, 2)
    ELSE IF kind = "int16" /\ NumS32(g_value_get(val)) > 32767 THEN Bytes(32767, 2)
    ELSE IF kind = "int16" /\ NumS32(g_value_get(val)) < -32768 THEN Bytes(-32768, 2)
    ELSE IF kind \in {"uint16", "int16"} THEN Truncate(g_value_get(val), 2)
    ELSE g_value_get(val)

\* the C value stored through the argument or member pointer of a kind:
\* the 16-bit kinds take (guint16) / (gint16) of the stored uint / int
StoreAs(kind, val) ==
    IF kind \in {"uint16", "int16"} THEN Truncate(g_value_get(val), 2)
    ELSE g_value_get(val)

\* a type check without the special case of the 16-bit kinds
ArrayTypeMatches_Exact(val_type, cur_value_type) == val_type = cur_value_type

\* lines 1708-1711: the stored type fits the requested one
ArrayTypeMatches(val_type, cur_value_type) ==
    \/ val_type = cur_value_type
    \/ val_type = "uint" /\ cur_value_type = "uint16"
    \/ val_type = "int" /\ cur_value_type = "int16"

\* lines 1694-1770: the loop over the argument list from argument i on
RECURSIVE get_array_valist_loop(_, _, _, _)
get_array_valist_loop(arr, types, i, outs) ==
    IF i > Len(types)
      THEN [ret |-> ~(i - 1 < Len(arr)), outs |-> outs]
    ELSE IF i - 1 > Len(arr) - 1 THEN [ret |-> FALSE, outs |-> outs]
    ELSE IF ~ArrayTypeMatches(arr[i].type, types[i])
      THEN [ret |-> FALSE, outs |-> outs]
    ELSE IF types[i] \notin Kinds THEN [ret |-> FALSE, outs |-> outs]
    ELSE get_array_valist_loop(arr, types, i + 1,
                               [outs EXCEPT ![i] = StoreAs(types[i], arr[i])])

\* lines 1679-1787
blconf_channel_get_array_valist(found, types) ==
    LET arr == blconf_channel_get_arrayv(found)
        outs == [i \in 1..Len(types) |-> Unwritten]
    IN IF arr.null THEN [ret |-> FALSE, outs |-> outs]
       ELSE get_array_valist_loop(arr.arr, types, 1, outs)

\* a length check that lets a longer array through
StructLengthMatches_AtLeast(arr_len, n_members) == arr_len >= n_members

\* line 2207
StructLengthMatches(arr_len, n_members) == arr_len = n_members

\* the GTYPE that SET_STRUCT_VAL checks the stored value against
StructWireType(kind) ==
    CASE kind = "uint16" -> "uint"
      [] kind = "int16" -> "int"
      [] OTHER -> kind

\* lines 2216-2317: the loop over the members from member i on
RECURSIVE get_structv_loop(_, _, _, _, _)
get_structv_loop(arr, member_types, i, cur_offset, value_struct) ==
    IF i > Len(member_types) THEN [ret |-> TRUE, mem |-> value_struct]
    ELSE IF member_types[i] \notin Kinds
      THEN [ret |-> FALSE, mem |-> value_struct]
    ELSE IF arr[i].type # StructWireType(member_types[i])
      THEN [ret |-> FALSE, mem |-> value_struct]
    ELSE LET kind == member_types[i]
             offset == ALIGN_VAL(cur_offset, Alignof(kind))
         IN get_structv_loop(arr, member_types, i + 1, offset + Sizeof(kind),
                             WriteMem(value_struct, offset, StoreAs(kind, arr[i])))

\* lines 2188-2325
blconf_channel_get_structv(found, value_struct, member_types) ==
    IF Len(member_types) = 0 THEN [ret |-> FALSE, mem |-> value_struct]
    ELSE LET arr == blconf_channel_get_arrayv(found)
         IN IF arr.null THEN [ret |-> FALSE, mem |-> value_struct]
            ELSE IF ~StructLengthMatches(Len(arr.arr), Len(member_types))
              THEN [ret |-> FALSE, mem |-> value_struct]
            ELSE get_structv_loop(arr.arr, member_types, 1, 0, value_struct)

(***************************************************************************)
(* The value bridge machine.                                               *)
(***************************************************************************)

\* what a struct holds between its members, and what a struct the caller
\* has not filled in holds
PadByte == 204

PoisonByte == 170

\* the C values a struct member or array element of a kind takes
VSampleC(kind) ==
    CASE kind = "uchar" -> {Bytes(255, 1)}
      [] kind = "char" -> {Bytes(-128, 1)}
      [] kind = "uint16" -> {Bytes(65535, 2), Bytes(258, 2)}
      [] kind = "int16" -> {Bytes(-32768, 2), Bytes(-2, 2)}
      [] kind = "uint" -> {Bytes(70000, 4)}
      [] kind = "int" -> {Bytes(-5, 4)}
      [] kind = "uint64" -> {<<1, 2, 3, 4, 5, 6, 7, 8>>}
      [] kind = "int64" -> {Bytes(-9, 8)}
      [] kind = "float" -> {<<0, 0, 192, 63>>}
      [] kind = "double" -> {<<0, 0, 0, 0, 0, 0, 248, 63>>}
      [] kind = "boolean" -> {Bytes(1, 4)}
      [] kind = "string" -> {StaticAddr("s"), StaticAddr(BadUtf8)}
      [] OTHER -> {<<8, 8, 0, 0, 0, 0, 0, 0>>}

\* the C values a scalar of a kind takes
VScalarC(kind) ==
    CASE kind = "uint16" ->
           {Bytes(n, 2) : n \in {0, 1, 255, 256, 32767, 32768, 65535}}
      [] kind = "int16" ->
           {Bytes(n, 2) : n \in {-32768, -32767, -256, -1, 0, 1, 255, 32767}}
      [] kind = "uint" ->
           {Bytes(0, 4), Bytes(65535, 4), Bytes(65536, 4), <<255, 255, 255, 255>>}
      [] kind = "int" -> {Bytes(-5, 4), Bytes(-32769, 4), Bytes(40000, 4)}
      [] kind = "boolean" -> {Bytes(0, 4), Bytes(1, 4)}
      [] kind = "string" ->
           {StaticAddr("s"), StaticAddr(""), StaticAddr(NullContent),
            StaticAddr(BadUtf8)}
      [] OTHER -> VSampleC(kind)

\* one kind of each size and alignment, the 16-bit kinds, and a kind the
\* bridge does not know
VCoreKinds == {"uchar", "uint16", "int16", "uint", "string", UnknownKind}

VMembers ==
    UNION {{<<kind, c>> : c \in VSampleC(kind)} : kind \in VCoreKinds}

\* the typed tuples of n members of the core kinds
VTuplesOfLen(n) ==
    {[types |-> [i \in 1..n |-> f[i][1]], cvals |-> [i \in 1..n |-> f[i][2]]] :
        f \in [1..n -> VMembers]}

\* the descriptor [u8, u64, u16, string]
VExample ==
    [types |-> <<"uchar", "uint64", "uint16", "string">>,
     cvals |-> <<Bytes(7, 1), <<1, 2, 3, 4, 5, 6, 7, 8>>, Bytes(65535, 2),
                 StaticAddr("s")>>]

\* every kind once, in orders that leave gaps between the members
VKindsA ==
    [types |-> <<"uchar", "double", "char", "float", "boolean", "int64">>,
     cvals |-> <<Bytes(255, 1), <<0, 0, 0, 0, 0, 0, 248, 63>>, Bytes(-128, 1),
                 <<0, 0, 192, 63>>, Bytes(1, 4), Bytes(-9, 8)>>]

VKindsB ==
    [types |-> <<"int16", "int", "uint16", "uint64", "uint", "string">>,
     cvals |-> <<Bytes(-32768, 2), Bytes(-40000, 4), Bytes(65535, 2),
                 <<1, 2, 3, 4, 5, 6, 7, 8>>, Bytes(70000, 4), StaticAddr("s")>>]

\* the typed tuples the callers pass: up to MaxMembers members of the core
\* kinds, and the three longer ones
VTuples ==
    UNION {VTuplesOfLen(n) : n \in 0..MaxMembers}
    \cup {VExample, VKindsA, VKindsB}

VScalars ==
    UNION {{[types |-> <<kind>>, cvals |-> <<c>>] : c \in VScalarC(kind)} :
              kind \in Kinds}

\* the descriptors a get is called with after a set with the given types:
\* the same, one member less, one member more, one member of another kind
VOtherKinds == {"uint16", "int16", "uint", "string", UnknownKind}

VVariants(types) ==
    {types}
    \cup (IF Len(types) > 0 THEN {SubSeq(types, 1, Len(types) - 1)} ELSE {})
    \cup {Append(types, k) : k \in VOtherKinds}
    \cup {[types EXCEPT ![i] = k] : i \in 1..Len(types), k \in VOtherKinds}

\* The struct as the C compiler lays it out: each member at the first
\* multiple of its alignment after the member before it, the size a multiple
\* of the largest alignment.
RECURSIVE COffsetOf(_, _)
COffsetOf(types, i) ==
    LET end == IF i = 1 THEN 0
               ELSE COffsetOf(types, i - 1) + Sizeof(types[i - 1])
        a == Alignof(types[i])
    IN end + ((a - (end % a)) % a)

CStructSize(types) ==
    LET n == Len(types)
        end == COffsetOf(types, n) + Sizeof(types[n])
        a == IF \E j \in 1..n : Alignof(types[j]) = 8 THEN 8
             ELSE IF \E j \in 1..n : Alignof(types[j]) = 4 THEN 4
             ELSE IF \E j \in 1..n : Alignof(types[j]) = 2 THEN 2
             ELSE 1
    IN IF n = 0 THEN 0 ELSE end + ((a - (end % a)) % a)

\* the struct that holds cvals, with pad between the members
CStructWith(types, cvals, pad) ==
    [j \in 1..CStructSize(types) |->
        IF \E i \in 1..Len(types) :
               j > COffsetOf(types, i) /\ j <= COffsetOf(types, i) + Sizeof(types[i])
          THEN LET i == CHOOSE k \in 1..Len(types) :
                            /\ j > COffsetOf(types, k)
                            /\ j <= COffsetOf(types, k) + Sizeof(types[k])
               IN cvals[i][j - COffsetOf(types, i)]
          ELSE pad]

CStruct(types, cvals) == CStructWith(types, cvals, PadByte)

\* a struct of the given members that the caller has not filled in
BlankStruct(types) == [j \in 1..CStructSize(types) |-> PoisonByte]

\* the GValues a caller makes of a typed tuple
VGValues(tt) == [i \in 1..Len(tt.types) |-> g_value_set(tt.types[i], tt.cvals[i])]

\* blconf_channel_get_internal on the property, into an unset GValue
VFound ==
    IF vWire = Unset THEN [ret |-> FALSE, value |-> Unset]
    ELSE [ret |-> TRUE, value |-> vWire]

VInit ==
    /\ RegIdle
    /\ RtIdle
    /\ BeIdle
    /\ ChIdle
    /\ VIdle
    /\ OpIdle
    /\ DIdle

\* the caller's side of a set: which call, and the types and C values
VTuple(op, scalar, tt) ==
    [op |-> op, scalar |-> scalar, types |-> tt.types, cvals |-> tt.cvals]

\* the record of a set call.  call: whether blconf_channel_set_internal was
\* reached and the GValue handed to it; ok: blconf_cache_set returned TRUE
VSetCall(op, scalar, tt, call, ok) ==
    [op |-> op, tt |-> VTuple(op, scalar, tt), requested |-> "invalid",
     called |-> call.called, handed |-> call.handed, ret |-> call.called /\ ok]

\* A get, a rejected set and a failed set leave the cache as it was, so the
\* calls that follow one reach what they reach without it: the calls are
\* taken from the states in which the last call changed what the cache holds.
VSettled == vLast.op \in {"none", "reset"} \/ (vLast.called /\ vLast.ret)

\* Every set is made while the property is absent; it is absent again after
\* a reset.

\* blconf_channel_set_property with a scalar GValue
VSetScalar ==
    /\ VSettled
    /\ vWire = Unset
    /\ \E tt \in VScalars, ok \in BOOLEAN :
         LET call == blconf_channel_set_property(g_value_set(tt.types[1], tt.cvals[1]))
         IN /\ vLast' = VSetCall("set_property", TRUE, tt, call, ok)
            /\ vWire' = IF call.called /\ ok THEN call.handed ELSE vWire
            /\ vDesc' = IF call.called /\ ok THEN VTuple("set_property", TRUE, tt)
                        ELSE vDesc
    /\ vOut' = VNoOut
    /\ UNCHANGED notV

\* blconf_channel_set_property with an unset GValue
VSetUnset ==
    /\ VSettled
    /\ vWire = Unset
    /\ vLast' = VSetCall("set_property", TRUE, [types |-> <<>>, cvals |-> <<>>],
                         blconf_channel_set_property(Unset), TRUE)
    /\ vOut' = VNoOut
    /\ UNCHANGED <<vWire, vDesc, notV>>

\* blconf_channel_set_property with a value array
VSetPropertyArray ==
    /\ VSettled
    /\ vWire = Unset
    /\ \E tt \in VTuples, ok \in BOOLEAN :
         LET call == blconf_channel_set_property([type |-> "array", v |-> VGValues(tt)])
         IN /\ vLast' = VSetCall("set_property", FALSE, tt, call, ok)
            /\ vWire' = IF call.called /\ ok THEN call.handed ELSE vWire
            /\ vDesc' = IF call.called /\ ok THEN VTuple("set_property", FALSE, tt)
                        ELSE vDesc
    /\ vOut' = VNoOut
    /\ UNCHANGED notV

VSetArrayv ==
    /\ VSettled
    /\ vWire = Unset
    /\ \E tt \in VTuples, ok \in BOOLEAN :
         LET call == blconf_channel_set_arrayv(VGValues(tt))
         IN /\ vLast' = VSetCall("set_arrayv", FALSE, tt, call, ok)
            /\ vWire' = IF call.called /\ ok THEN call.handed ELSE vWire
            /\ vDesc' = IF call.called /\ ok THEN VTuple("set_arrayv", FALSE, tt)
                        ELSE vDesc
    /\ vOut' = VNoOut
    /\ UNCHANGED notV

\* blconf_channel_set_array: lines 1850-1864 pass the argument list on
VSetArray ==
    /\ VSettled
    /\ vWire = Unset
    /\ \E tt \in VTuples, ok \in BOOLEAN :
         LET call == blconf_channel_set_array_valist(tt.types, tt.cvals)
         IN /\ vLast' = VSetCall("set_array", FALSE, tt, call, ok)
            /\ vWire' = IF call.called /\ ok THEN call.handed ELSE vWire
            /\ vDesc' = IF call.called /\ ok THEN VTuple("set_array", FALSE, tt)
                        ELSE vDesc
    /\ vOut' = VNoOut
    /\ UNCHANGED notV

\* blconf_channel_set_struct and blconf_channel_set_structv on a struct the
\* compiler laid out
VSetStruct ==
    /\ VSettled
    /\ vWire = Unset
    /\ \E tt \in VTuples, ok \in BOOLEAN :
         LET call == blconf_channel_set_structv(CStruct(tt.types, tt.cvals), tt.types)
         IN /\ vLast' = VSetCall("set_struct", FALSE, tt, call, ok)
            /\ vWire' = IF call.called /\ ok THEN call.handed ELSE vWire
            /\ vDesc' = IF call.called /\ ok THEN VTuple("set_struct", FALSE, tt)
                        ELSE vDesc
    /\ vOut' = VNoOut
    /\ UNCHANGED notV

VGetCall(op, types, requested) ==
    [op |-> op, tt |-> VTuple(op, FALSE, [types |-> types, cvals |-> <<>>]),
     requested |-> requested, called |-> FALSE, handed |-> Unset, ret |-> FALSE]

\* the GValue the caller passes to blconf_channel_get_property: unset, or
\* initialised to the requested type and holding a value of the caller's
VCallerValue(requested) ==
    IF requested = "invalid" THEN Unset
    ELSE g_value_set(requested, CHOOSE c \in VSampleC(requested) : TRUE)

VRequestable(requested) ==
    \/ requested = "invalid"
    \/ vWire = Unset
    \/ /\ vWire.type # "array"
       /\ ModelledTransform(vWire.type, requested)
    \/ /\ vWire.type = "array"
       /\ \A i \in 1..Len(vWire.v) : ModelledTransform(vWire.v[i].type, requested)

VGetProperty ==
    /\ VSettled
    /\ \E requested \in Kinds \cup {"invalid"} :
         /\ VRequestable(requested)
         /\ LET r == blconf_channel_get_property(VFound, VCallerValue(requested))
            IN /\ vLast' = [VGetCall("get_property", <<>>, requested) EXCEPT !.ret = r.ret]
               /\ vOut' = [VNoOut EXCEPT !.ret = r.ret, !.value = r.value]
    /\ UNCHANGED <<vWire, vDesc, notV>>

VGetArrayv ==
    /\ VSettled
    /\ LET arr == blconf_channel_get_arrayv(VFound)
       IN /\ vLast' = [VGetCall("get_arrayv", <<>>, "invalid") EXCEPT !.ret = ~arr.null]
          /\ vOut' = [VNoOut EXCEPT !.ret = ~arr.null,
                                    !.value = IF arr.null THEN Unset
                                              ELSE [type |-> "array", v |-> arr.arr]]
    /\ UNCHANGED <<vWire, vDesc, notV>>

\* blconf_channel_get_array: lines 1649-1663 pass the argument list on
VGetArray ==
    /\ VSettled
    /\ \E types \in VVariants(vDesc.types) :
         LET r == blconf_channel_get_array_valist(VFound, types)
         IN /\ vLast' = [VGetCall("get_array", types, "invalid") EXCEPT !.ret = r.ret]
            /\ vOut' = [VNoOut EXCEPT !.ret = r.ret, !.outs = r.outs]
    /\ UNCHANGED <<vWire, vDesc, notV>>

\* blconf_channel_get_struct and blconf_channel_get_structv into a struct
\* the caller has not filled in
VGetStruct ==
    /\ VSettled
    /\ \E types \in VVariants(vDesc.types) :
         LET r == blconf_channel_get_structv(VFound, BlankStruct(types), types)
         IN /\ vLast' = [VGetCall("get_struct", types, "invalid") EXCEPT !.ret = r.ret]
            /\ vOut' = [VNoOut EXCEPT !.ret = r.ret, !.mem = r.mem]
    /\ UNCHANGED <<vWire, vDesc, notV>>

\* blconf_channel_reset_property (lines 973-990): the property is removed
VReset ==
    /\ vWire # Unset
    /\ vWire' = Unset
    /\ vDesc' = VNoTuple
    /\ vLast' = [VNoCall EXCEPT !.op = "reset", !.ret = TRUE]
    /\ vOut' = VNoOut
    /\ UNCHANGED notV

VNext ==
    \/ VReset
    \/ VSetScalar
    \/ VSetUnset
    \/ VSetPropertyArray
    \/ VSetArrayv
    \/ VSetArray
    \/ VSetStruct
    \/ VGetProperty
    \/ VGetArrayv
    \/ VGetArray
    \/ VGetStruct

SpecVal == VInit /\ [][VNext]_vars

(***************************************************************************)
(* The operations machine.                                                 *)
(***************************************************************************)

\* a call of a collaborator: blconf_cache_set, blconf_cache_lookup,
\* blconf_cache_reset or blconf_client_is_property_locked, and the path
\* handed to it
OpCollab(fn, path, recursive) == [fn |-> fn, path |-> path, recursive |-> recursive]

\* path is base itself or lies under it; NULL, "" and "/" stand for the root
OpUnder(base, path) ==
    \/ base = NullStr
    \/ Len(base) = 0
    \/ base = Root
    \/ path = base
    \/ g_str_has_prefix(path, base \o Root)

\* blconf_cache_reset: on success the cache no longer holds the property
\* nor, when recursive, the properties under it
blconf_cache_reset(store, real_property_base, recursive) ==
    [k \in {q \in DOMAIN store :
               ~(\/ q = real_property_base
                 \/ recursive /\ OpUnder(real_property_base, q))} |-> store[k]]

\* the precondition in lines 980-982, without the test of property_base[1]
reset_precondition_FirstCharOnly(property_base, recursive) ==
    \/ property_base # NullStr /\ Len(property_base) >= 1
    \/ recursive

\* lines 980-982: property_base && property_base[0] && property_base[1],
\* or recursive
reset_precondition(property_base, recursive) ==
    \/ property_base # NullStr /\ Len(property_base) >= 2
    \/ recursive

\* lines 973-990.  ok: blconf_cache_reset returned TRUE.  The function
\* returns nothing.
blconf_channel_reset_property(channel, store, property_base, recursive, ok) ==
    LET real_property_base == REAL_PROP(channel, property_base)
    IN IF ~reset_precondition(property_base, recursive)
         THEN [calls |-> <<>>, store |-> store, ret |-> "void"]
         ELSE [calls |-> <<OpCollab("blconf_cache_reset", real_property_base,
                                    recursive)>>,
               store |-> IF ok THEN blconf_cache_reset(store, real_property_base,
                                                       recursive)
                         ELSE store,
               ret |-> "void"]

\* lines 663-682.  ok: blconf_cache_set returned TRUE
blconf_channel_set_internal(channel, store, property, value, ok) ==
    LET real_property == REAL_PROP(channel, property)
    IN [calls |-> <<OpCollab("blconf_cache_set", real_property, FALSE)>>,
        store |-> IF ok THEN blconf_cache_set(store, real_property, value)
                  ELSE store,
        ret |-> IF ok THEN "TRUE" ELSE "FALSE"]

\* lines 896-912
blconf_channel_has_property(channel, store, property) ==
    LET real_property == REAL_PROP(channel, property)
        exists == blconf_cache_lookup(store, real_property).ret
    IN [calls |-> <<OpCollab("blconf_cache_lookup", real_property, FALSE)>>,
        store |-> store,
        ret |-> IF exists THEN "TRUE" ELSE "FALSE"]

\* lines 940-944 without the reset of locked: the output of the call is
\* returned whether the call succeeded or not
is_property_locked_KeepOutput(channel, store, property, ok, out) ==
    [calls |-> <<OpCollab("blconf_client_is_property_locked", property, FALSE)>>,
     store |-> store,
     ret |-> IF out THEN "TRUE" ELSE "FALSE"]

\* lines 928-948.  ok: the remote call returned TRUE; out: what the call
\* left in locked.  The daemon is asked about property.
blconf_channel_is_property_locked(channel, store, property, ok, out) ==
    [calls |-> <<OpCollab("blconf_client_is_property_locked", property, FALSE)>>,
     store |-> store,
     ret |-> IF ~ok THEN "FALSE" ELSE IF out THEN "TRUE" ELSE "FALSE"]

\* lines 1019-1022: real_property_base
get_properties_base(channel, property_base) ==
    IF property_base = NullStr \/ property_base = Root
      THEN channel.property_base
      ELSE REAL_PROP(channel, property_base)

\* lines 1010-1040.  ok: blconf_client_get_all_properties returned TRUE
blconf_channel_get_properties(channel, store, property_base, ok) ==
    LET real_property_base == get_properties_base(channel, property_base)
    IN [calls |-> <<OpCollab("blconf_client_get_all_properties",
                             IF real_property_base # NullStr
                               THEN real_property_base ELSE Root,
                             FALSE)>>,
        store |-> store,
        ret |-> IF ok THEN "TRUE" ELSE "FALSE"]

OpBases == {NullStr, PFoo}

OpProperties == {PFoo, PFooBar}

\* the property_base arguments of a reset: NULL, "", "/", "x" and paths
OpResetBases == {NullStr, <<>>, Root, <<"x">>, PFoo, PFooBar}

OpValues == {[type |-> "int", v |-> Bytes(5, 4)],
             [type |-> "string", v |-> "s"],
             [type |-> "string", v |-> BadUtf8]}

\* the policies: nothing locked, or one of the properties of the channel
OpPolicies == {{}, {PFoo}, {PFoo \o PFoo}}

OpInit ==
    /\ RegIdle
    /\ RtIdle
    /\ BeIdle
    /\ ChIdle
    /\ VIdle
    /\ DIdle
    /\ opChan \in [channel_name : {"a"}, property_base : OpBases]
    /\ opStore = EmptyTable
    /\ opLocked \in OpPolicies
    /\ opLast = OpNoCall

\* what the cache or the daemon may answer to a write of a path: a failure
\* when the policy locks it, and a failure of the transport at any time
OpAnswers(real_property) ==
    IF real_property \in opLocked THEN {FALSE} ELSE BOOLEAN

\* blconf_channel_set_property (lines 1581-1627) and, when the value passes
\* its precondition, blconf_channel_set_internal
OpSet ==
    /\ \E property \in OpProperties, value \in OpValues :
         \E ok \in OpAnswers(REAL_PROP(opChan, property)) :
           LET call == blconf_channel_set_property(value)
               r == blconf_channel_set_internal(opChan, opStore, property,
                                                call.handed, ok)
           IN IF call.called
                THEN /\ opStore' = r.store
                     /\ opLast' = [op |-> "set", property |-> property,
                                   recursive |-> FALSE, value |-> value,
                                   calls |-> r.calls, ok |-> ok, ret |-> r.ret]
                ELSE /\ opStore' = opStore
                     /\ opLast' = [op |-> "set", property |-> property,
                                   recursive |-> FALSE, value |-> value,
                                   calls |-> <<>>, ok |-> FALSE, ret |-> "FALSE"]
    /\ UNCHANGED <<opChan, opLocked, notOp>>

\* blconf_channel_get_property (lines 1513-1566) through
\* blconf_channel_get_internal (lines 684-724), asking for the native type
OpGet ==
    /\ \E property \in OpProperties :
         LET real_property == REAL_PROP(opChan, property)
             r == blconf_channel_get_property(
                      blconf_cache_lookup(opStore, real_property), Unset)
         IN opLast' = [op |-> "get", property |-> property, recursive |-> FALSE,
                       value |-> r.value,
                       calls |-> <<OpCollab("blconf_cache_lookup", real_property,
                                            FALSE)>>,
                       ok |-> r.ret, ret |-> IF r.ret THEN "TRUE" ELSE "FALSE"]
    /\ UNCHANGED <<opChan, opStore, opLocked, notOp>>

OpHasProperty ==
    /\ \E property \in OpProperties :
         LET r == blconf_channel_has_property(opChan, opStore, property)
         IN opLast' = [op |-> "has_property", property |-> property,
                       recursive |-> FALSE, value |-> Unset, calls |-> r.calls,
                       ok |-> TRUE, ret |-> r.ret]
    /\ UNCHANGED <<opChan, opStore, opLocked, notOp>>

\* the gboolean the call leaves in locked
OpLockedOut(out) == [type |-> "boolean", v |-> IF out THEN Bytes(1, 4) ELSE Bytes(0, 4)]

\* the daemon answers for the path it is asked about; a call that fails may
\* leave anything in its output
OpIsPropertyLocked ==
    /\ \E property \in OpProperties, ok \in BOOLEAN, out \in BOOLEAN :
         /\ ok => (out <=> property \in opLocked)
         /\ LET r == blconf_channel_is_property_locked(opChan, opStore,
                                                       property, ok, out)
            IN opLast' = [op |-> "is_property_locked", property |-> property,
                          recursive |-> FALSE, value |-> OpLockedOut(out),
                          calls |-> r.calls, ok |-> ok, ret |-> r.ret]
    /\ UNCHANGED <<opChan, opStore, opLocked, notOp>>

\* blconf_channel_get_properties; the table it returns holds what the daemon
\* has under the base
OpGetProperties ==
    /\ \E property_base \in OpResetBases, ok \in BOOLEAN :
         LET r == blconf_channel_get_properties(opChan, opStore, property_base, ok)
         IN opLast' = [op |-> "get_properties", property |-> property_base,
                       recursive |-> FALSE, value |-> Unset, calls |-> r.calls,
                       ok |-> ok, ret |-> r.ret]
    /\ UNCHANGED <<opChan, opStore, opLocked, notOp>>

OpReset ==
    /\ \E property_base \in OpResetBases, recursive \in BOOLEAN :
         \E ok \in OpAnswers(REAL_PROP(opChan, property_base)) :
           LET r == blconf_channel_reset_property(opChan, opStore, property_base,
                                                  recursive, ok)
           IN /\ opStore' = r.store
              /\ opLast' = [op |-> "reset", property |-> property_base,
                            recursive |-> recursive, value |-> Unset,
                            calls |-> r.calls, ok |-> ok /\ r.calls # <<>>,
                            ret |-> r.ret]
    /\ UNCHANGED <<opChan, opLocked, notOp>>

OpNext ==
    \/ OpSet
    \/ OpGet
    \/ OpHasProperty
    \/ OpIsPropertyLocked
    \/ OpGetProperties
    \/ OpReset

SpecOps == OpInit /\ [][OpNext]_vars

(***************************************************************************)
(* The daemon machine (src/xfconfd/main.c).                                *)
(***************************************************************************)

\* the states written to the signal pipe (lines 52-57)
SIGNAL_NONE == 0

SIGNAL_RESTART == 1

SIGNAL_QUIT == 2

\* the signals main() installs sighandler for (lines 125-129)
QuitSignals == {"SIGINT", "SIGHUP", "SIGTERM", "SIGQUIT"}

HandledSignals == QuitSignals \cup {"SIGUSR1"}

\* sighandler's switch (lines 66-74)
sigstate(sig) ==
    IF sig = "SIGUSR1" THEN SIGNAL_RESTART ELSE SIGNAL_QUIT

\* write(signal_pipe[1], &sigstate, sizeof(sigstate)) at line 76 on a
\* non-blocking descriptor: the word is queued when the descriptor is open
\* and the pipe has room; otherwise the call fails (EBADF, EAGAIN) and the
\* handler does not look at the result
write(pipe, word) ==
    IF pipe.state = "open" /\ Len(pipe.words) < PipeCapacity
      THEN [pipe EXCEPT !.words = Append(@, word)]
      ELSE pipe

\* sigaction has replaced the default dispositions
HandlersInstalled == dPc # "start"

ProcessRuns == dPc \notin {"exited", "killed"}

DInit ==
    /\ RegIdle
    /\ RtIdle
    /\ BeIdle
    /\ ChIdle
    /\ VIdle
    /\ OpIdle
    /\ DIdle

\* lines 121-129
InstallHandlers ==
    /\ dPc = "start"
    /\ dPc' = "pipe"
    /\ UNCHANGED <<signal_pipe, signal_watch, mloop, dStatus, dSignals, dQuit, notD>>

\* lines 140-160: pipe() or fcntl() may fail, and then no watch is installed
\* ("Signals will be ignored"); after a failed fcntl both ends are closed
CreatePipe ==
    /\ dPc = "pipe"
    /\ dPc' = "daemon"
    /\ \E outcome \in {"ok", "pipe_failed", "fcntl_failed"} :
         /\ signal_pipe' =
              IF outcome = "ok" THEN [state |-> "open", words |-> <<>>]
              ELSE IF outcome = "fcntl_failed"
                THEN [state |-> "closed", words |-> <<>>]
              ELSE signal_pipe
         /\ signal_watch' = (outcome = "ok")
    /\ UNCHANGED <<mloop, dStatus, dSignals, dQuit, notD>>

\* lines 162-168: xfconf_daemon_new_unique fails and main returns 1, or the
\* main loop starts to run
StartDaemon ==
    /\ dPc = "daemon"
    /\ \E started \in BOOLEAN :
         IF started
           THEN /\ dPc' = "run"
                /\ mloop' = "running"
                /\ UNCHANGED dStatus
           ELSE /\ dPc' = "exited"
                /\ dStatus' = <<1>>
                /\ UNCHANGED mloop
    /\ UNCHANGED <<signal_pipe, signal_watch, dSignals, dQuit, notD>>

\* signal_pipe_io (lines 79-108), dispatched by the running loop when the
\* read end is readable: one word is read; SIGNAL_QUIT quits the loop
signal_pipe_io ==
    /\ dPc = "run"
    /\ mloop = "running"
    /\ signal_watch
    /\ Len(signal_pipe.words) > 0
    /\ signal_pipe' = [signal_pipe EXCEPT !.words = Tail(@)]
    /\ mloop' = IF Head(signal_pipe.words) = SIGNAL_QUIT THEN "quit" ELSE mloop
    /\ UNCHANGED <<dPc, signal_watch, dStatus, dSignals, dQuit, notD>>

\* line 168: g_main_loop_run returns once the loop was quit
LoopReturns ==
    /\ dPc = "run"
    /\ mloop = "quit"
    /\ dPc' = "cleanup"
    /\ UNCHANGED <<signal_pipe, signal_watch, mloop, dStatus, dSignals, dQuit, notD>>

\* lines 170-180
Cleanup ==
    /\ dPc = "cleanup"
    /\ dPc' = "exited"
    /\ dStatus' = <<0>>
    /\ signal_pipe' = IF signal_watch
                        THEN [state |-> "closed", words |-> <<>>]
                        ELSE signal_pipe
    /\ signal_watch' = FALSE
    /\ UNCHANGED <<mloop, dSignals, dQuit, notD>>

\* the kernel delivers one of the five signals to the process: before line
\* 125 its default action ends the process, afterwards sighandler runs
\* (lines 61-77)
Signal ==
    /\ ProcessRuns
    /\ dSignals < MaxSignals
    /\ dSignals' = dSignals + 1
    /\ \E sig \in HandledSignals :
         IF ~HandlersInstalled
           THEN /\ dPc' = "killed"
                /\ UNCHANGED <<signal_pipe, dQuit>>
           ELSE /\ signal_pipe' = write(signal_pipe, sigstate(sig))
                /\ dQuit' = (dQuit \/ sig \in QuitSignals)
                /\ UNCHANGED dPc
    /\ UNCHANGED <<signal_watch, mloop, dStatus, notD>>

\* the steps of the process's only thread
DMain ==
    \/ InstallHandlers
    \/ CreatePipe
    \/ StartDaemon
    \/ signal_pipe_io
    \/ LoopReturns
    \/ Cleanup

DNext ==
    \/ DMain
    \/ Signal

\* main() and the loop it runs take their next step whenever they have one;
\* nothing is assumed about when signals arrive
SpecDaemon == DInit /\ [][DNext]_vars /\ WF_vars(DMain)

(***************************************************************************)
(* Claims about the registry machine.                                      *)
(***************************************************************************)

\* the threads that are inside the constructor past line 519, or have
\* returned, holding a channel
Holding(t) ==
    /\ thr[t].pc \in {"check", "newcache", "prefetch", "connect", "done"}
    /\ thr[t].channel # NullChannel

\* C1: between two shutdowns at most one singleton Channel object is created
\* per name, every singleton construction for that name yields that one
\* object, and it is the one the registry holds.
C1_OneSingletonPerName ==
    /\ \A i, j \in DOMAIN chan :
          ( /\ chan[i].is_singleton /\ chan[j].is_singleton
            /\ chan[i].channel_name = chan[j].channel_name
            /\ chan[i].epoch = chan[j].epoch ) => i = j
    /\ \A t, u \in Threads :
          ( /\ Holding(t) /\ Holding(u)
            /\ thr[t].is_singleton /\ thr[u].is_singleton
            /\ thr[t].name = thr[u].name
            /\ thr[t].epoch = thr[u].epoch ) => thr[t].channel = thr[u].channel
    /\ \A t \in Threads :
          (Holding(t) /\ thr[t].is_singleton /\ thr[t].epoch = epoch)
             => singletons.map[thr[t].name] = thr[t].channel

\* two threads are inside the constructor at the same time, past the
\* critical section, with the same singleton
C1_Witness ==
    \E t, u \in Threads :
        /\ t # u
        /\ thr[t].pc \in {"check", "newcache", "prefetch", "connect"}
        /\ thr[u].pc \in {"check", "newcache", "prefetch", "connect"}
        /\ thr[t].is_singleton /\ thr[u].is_singleton
        /\ thr[t].channel = thr[u].channel

\* the caches created for channel c
CachesOf(c) == {k \in DOMAIN caches : caches[k].chan = c}

\* C2: when a constructing call has returned a Channel, exactly one Cache
\* has been created for that Channel, with exactly one prefetch issued and
\* exactly one change handler connected.
C2_OneCacheOnePrefetch ==
    \A t \in Threads :
        ( /\ thr[t].pc = "done"
          /\ thr[t].channel # NullChannel
          /\ chan[thr[t].channel].live )
        => /\ Cardinality(CachesOf(thr[t].channel)) = 1
           /\ \A k \in CachesOf(thr[t].channel) :
                 caches[k].nprefetch = 1 /\ caches[k].nconnect = 1

(***************************************************************************)
(* Claims about the notification router.                                   *)
(***************************************************************************)

\* the event's absolute path starts with the channel's property_base
RtInScope ==
    \/ rtChan.property_base = NullStr
    \/ /\ Len(rtEv.property) >= Len(rtChan.property_base)
       /\ \A i \in 1..Len(rtChan.property_base) :
             rtEv.property[i] = rtChan.property_base[i]

\* the absolute path without the leading property_base
RtRemainder ==
    [i \in 1..(Len(rtEv.property) - Len(rtChan.property_base)) |->
        rtEv.property[Len(rtChan.property_base) + i]]

\* C3: an event of another channel, or outside property_base, emits nothing;
\* any other event emits exactly one signal, whose property is the absolute
\* path with property_base stripped ("/" when nothing is left, the path
\* itself without a property_base) and whose value is the event's value.
C3_RouterScopesEvents ==
    rtEv # RtNoEvent =>
        IF rtEv.channel_name # rtChan.channel_name \/ ~RtInScope
          THEN rtOut = <<>>
          ELSE /\ Len(rtOut) = 1
               /\ rtOut[1].value = rtEv.value
               /\ rtOut[1].property =
                     IF rtChan.property_base = NullStr THEN rtEv.property
                     ELSE IF RtRemainder = <<>> THEN Root
                     ELSE RtRemainder

\* the spec's example, /foo/bar under base /foo delivered as /bar, and a
\* removal delivered for the base itself as "/"
C3_Witness ==
    /\ rtChan.property_base = PFoo
    /\ rtEv.channel_name = rtChan.channel_name
    /\ \/ rtEv.property = PFooBar /\ rtOut = <<[property |-> <<"/", "b", "a", "r">>,
                                                 value |-> rtEv.value]>>
       \/ rtEv.property = PFoo /\ rtEv.value = Unset
                               /\ rtOut = <<[property |-> Root, value |-> Unset]>>

(***************************************************************************)
(* Claims about the GSettings backend.                                     *)
(***************************************************************************)

\* C4: when the table of pending writes holds an entry for the path of a
\* change event, the event produces exactly one "changed" emission, for that
\* path and with the recorded origin tag; the entry is removed and the other
\* entries stay; no untagged emission is added and the subscriptions play no
\* part, whether or not one of them is a prefix of the path.
C4_PendingWriteConsumed ==
    (beLast.op = "event" /\ beLast.property \in DOMAIN beLast.changed) =>
        /\ beOut = <<[key |-> beLast.property,
                      origin_tag |-> beLast.changed[beLast.property]]>>
        /\ changed_prop = [k \in (DOMAIN beLast.changed) \ {beLast.property}
                             |-> beLast.changed[k]]
        /\ subscribed_prop = beLast.subscribed
        /\ ~beLast.warned

\* an event for a path with a pending entry tagged "t1", while a subscribed
\* name is a prefix of the path
C4_Witness ==
    /\ beLast.op = "event"
    /\ beLast.property \in DOMAIN beLast.changed
    /\ beLast.changed[beLast.property] = "t1"
    /\ \E name \in beLast.subscribed : g_str_has_prefix(beLast.property, name)
    /\ beOut = <<[key |-> beLast.property, origin_tag |-> "t1"]>>
    /\ beLast.property \notin DOMAIN changed_prop

(***************************************************************************)
(* Claims about the channel over its cache.                                *)
(***************************************************************************)

\* C5: a get of a path that follows a successful set of the same path on the
\* same channel, with no other write to the path in between, succeeds and
\* returns the value written, when it is read in its own kind, whether the
\* change event of the write is still queued or has been delivered.
C5_ReadYourWrite ==
    (/\ chLast.op = "get"
     /\ chSet.valid
     /\ chSet.property = chLast.property
     /\ chLast.requested \in {"invalid", chSet.value.type}) =>
        /\ chLast.ret
        /\ chLast.value = chSet.value

\* a get on a channel with a property base that returned the value of a
\* set whose change event is still queued
C5_Witness ==
    /\ chLast.op = "get"
    /\ chSet.valid
    /\ chSet.property = chLast.property
    /\ chSet.evpos > 0
    /\ chChan.property_base # NullStr
    /\ chLast.ret
    /\ chLast.value = chSet.value

(***************************************************************************)
(* Claims about the value bridge.                                          *)
(***************************************************************************)

VSetOps == {"set_property", "set_arrayv", "set_array", "set_struct"}

\* what a GValue holds for the C value c of a kind
GContent(kind, c) == IF kind = "string" THEN Deref(c) ELSE c

\* w is what goes to the cache for the C value c of a kind: no 16-bit type;
\* a uint for a uint16 and an int for an int16, holding the same number;
\* the same kind and value for anything else
WireOf(kind, c, w) ==
    /\ w.type \notin {"uint16", "int16"}
    /\ kind = "uint16" => w.type = "uint" /\ NumU32(w.v) = <<0, NumU16(c)>>
    /\ kind = "int16" => w.type = "int" /\ NumS32(w.v) = NumS16(c)
    /\ kind \notin {"uint16", "int16"} => w = [type |-> kind, v |-> GContent(kind, c)]

\* C6: whatever set call reaches the cache, the value handed to it holds no
\* uint16 and no int16, neither as the scalar nor as an element of the
\* array: a uint16 has become a uint and an int16 an int of the same number,
\* every other element has kept its kind, value and position, and the array
\* its length.
C6_No16BitOnTheWire ==
    (vLast.op \in VSetOps /\ vLast.called) =>
        IF vLast.tt.scalar
          THEN /\ Len(vLast.tt.types) = 1
               /\ WireOf(vLast.tt.types[1], vLast.tt.cvals[1], vLast.handed)
          ELSE /\ vLast.handed.type = "array"
               /\ Len(vLast.handed.v) = Len(vLast.tt.types)
               /\ \A i \in 1..Len(vLast.tt.types) :
                      WireOf(vLast.tt.types[i], vLast.tt.cvals[i], vLast.handed.v[i])

\* a struct set with an int16, a uint16 and members of other kinds
C6_Witness ==
    /\ vLast.op = "set_struct"
    /\ vLast.called
    /\ vLast.tt.types = VKindsB.types
    /\ vLast.handed.v[1] = [type |-> "int", v |-> Bytes(-32768, 4)]
    /\ vLast.handed.v[3] = [type |-> "uint", v |-> Bytes(65535, 4)]

\* two C values of a kind are the same value
SameC(kind, c1, c2) == GContent(kind, c1) = GContent(kind, c2)

VSupported(types) == Len(types) >= 1 /\ \A i \in 1..Len(types) : types[i] \in Kinds

\* C7: a value read back in the kind it was written in is the value
\* written: a scalar through get_property, the elements of an array through
\* get_array with the types of the set, and the 16-bit members of a struct
\* through get_struct with the types of the set.
C7_RoundTrip ==
    /\ (/\ vLast.op = "get_property"
        /\ vDesc.scalar
        /\ vDesc.op = "set_property"
        /\ vLast.requested = vDesc.types[1]) =>
           /\ vOut.ret
           /\ vOut.value = [type |-> vDesc.types[1],
                            v |-> GContent(vDesc.types[1], vDesc.cvals[1])]
    /\ (/\ vLast.op = "get_array"
        /\ vDesc.op \in VSetOps
        /\ ~vDesc.scalar
        /\ vLast.tt.types = vDesc.types
        /\ VSupported(vDesc.types)) =>
           /\ vOut.ret
           /\ \A i \in 1..Len(vDesc.types) :
                  SameC(vDesc.types[i], vOut.outs[i], vDesc.cvals[i])
    /\ (/\ vLast.op = "get_struct"
        /\ vDesc.op \in VSetOps
        /\ ~vDesc.scalar
        /\ vLast.tt.types = vDesc.types
        /\ VSupported(vDesc.types)) =>
           /\ vOut.ret
           /\ \A i \in 1..Len(vDesc.types) :
                  vDesc.types[i] \in {"uint16", "int16"} =>
                      ReadMem(vOut.mem, COffsetOf(vDesc.types, i), 2) = vDesc.cvals[i]

\* the int16 -32768, set as a scalar and read back as an int16
C7_Witness ==
    /\ vLast.op = "get_property"
    /\ vLast.requested = "int16"
    /\ vDesc.scalar
    /\ vDesc.types = <<"int16">>
    /\ vDesc.cvals = <<Bytes(-32768, 2)>>
    /\ vWire = [type |-> "int", v |-> Bytes(-32768, 4)]
    /\ vOut.ret
    /\ vOut.value = [type |-> "int16", v |-> Bytes(-32768, 2)]

\* C8: a struct get that fails leaves every byte of the caller's struct as
\* it was.
C8_FailedStructGetWritesNothing ==
    (vLast.op = "get_struct" /\ ~vOut.ret) =>
        vOut.mem = BlankStruct(vLast.tt.types)

\* C9: a struct get with at least one member fails when the stored array
\* is shorter or longer than the member list, and has then written no
\* member.
C9_LengthMismatchFails ==
    (/\ vLast.op = "get_struct"
     /\ Len(vLast.tt.types) >= 1
     /\ vWire.type = "array"
     /\ Len(vWire.v) # Len(vLast.tt.types)) =>
        /\ ~vOut.ret
        /\ vOut.mem = BlankStruct(vLast.tt.types)

\* a stored array one longer than the member list, whose first elements
\* have the types of the members
C9_Witness ==
    /\ vLast.op = "get_struct"
    /\ Len(vLast.tt.types) >= 1
    /\ vWire.type = "array"
    /\ Len(vWire.v) = Len(vLast.tt.types) + 1
    /\ \A i \in 1..Len(vLast.tt.types) :
           vWire.v[i].type = StructWireType(vLast.tt.types[i])
    /\ ~vOut.ret

\* the C value a get leaves for the C value that was set: a string comes
\* back as a new copy
Reproduced(kind, c) == IF kind = "string" THEN g_strdup(Deref(c)) ELSE c

C11_ArrayConvertedWhole ==
    (/\ vLast.op = "get_property"
     /\ vLast.requested # "invalid"
     /\ vWire.type = "array"
     /\ Len(vWire.v) >= 1) =>
        /\ vOut.ret <=> \A i \in 1..Len(vWire.v) :
                            g_value_transform(vWire.v[i], vLast.requested).ok
        /\ vOut.ret =>
               /\ vOut.value.type = "array"
               /\ Len(vOut.value.v) = Len(vWire.v)
               /\ \A i \in 1..Len(vWire.v) :
                      /\ vOut.value.v[i].type = vLast.requested
                      /\ vOut.value.v[i] =
                             g_value_transform(vWire.v[i], vLast.requested).value
        /\ ~vOut.ret => vOut.value = VCallerValue(vLast.requested)

\* a stored [int, string] asked for as int: the first element converts, the
\* second does not
C11_Witness ==
    /\ vLast.op = "get_property"
    /\ vLast.requested = "int"
    /\ vWire.type = "array"
    /\ Len(vWire.v) = 2
    /\ vWire.v[1].type = "int"
    /\ vWire.v[2].type = "string"
    /\ ~vOut.ret
    /\ vOut.value = [type |-> "int", v |-> Bytes(-5, 4)]

(***************************************************************************)
(* Claims about the operations of a channel.                               *)
(***************************************************************************)

\* the absolute path of a channel-relative path
OpAbsolute(p) ==
    IF opChan.property_base = NullStr THEN p ELSE opChan.property_base \o p

\* C12: a set of a property the policy locks first asks the daemon whether
\* the property is locked, returns failure and makes no write to the cache.
C12_LockedSetMakesNoWrite ==
    (opLast.op = "set" /\ OpAbsolute(opLast.property) \in opLocked) =>
        /\ opLast.ret = "FALSE"
        /\ Len(opLast.calls) >= 1
        /\ opLast.calls[1] = OpCollab("blconf_client_is_property_locked",
                                      OpAbsolute(opLast.property), FALSE)
        /\ \A i \in 1..Len(opLast.calls) : opLast.calls[i].fn # "blconf_cache_set"

\* C13: every collaborator call of get, set, has_property,
\* is_property_locked and reset on a path p is made with the property base
\* followed by p, or with p when the channel has no base.
C13_AbsolutePathHandedOn ==
    (/\ opLast.op \in {"get", "set", "has_property", "is_property_locked", "reset"}
     /\ opLast.property # NullStr) =>
        \A i \in 1..Len(opLast.calls) :
            opLast.calls[i].path = OpAbsolute(opLast.property)

\* C16: a set or a reset that is rejected, or whose cache call fails,
\* returns failure and leaves the cache holding what it held.
C16_FailureReturnedNothingChanged ==
    [][(/\ opLast'.op \in {"set", "reset"}
        /\ ~opLast'.ok
        /\ opLast' # opLast) =>
           /\ opLast'.ret = "FALSE"
           /\ opStore' = opStore]_vars

\* C17: a reset of NULL, "" or "/" makes no call to the cache when it is not
\* recursive and exactly one reset call to the cache when it is.
C17_EmptyPathReset ==
    (opLast.op = "reset" /\ opLast.property \in {NullStr, <<>>, Root}) =>
        IF opLast.recursive
          THEN /\ Len(opLast.calls) = 1
               /\ opLast.calls[1].fn = "blconf_cache_reset"
               /\ opLast.calls[1].recursive
          ELSE Len(opLast.calls) = 0

\* a reset of "/" that is not recursive, on a cache that holds a property
C17_Witness ==
    /\ opLast.op = "reset"
    /\ opLast.property = Root
    /\ ~opLast.recursive
    /\ Len(opLast.calls) = 0
    /\ DOMAIN opStore # {}

(***************************************************************************)
(* Further claims about the value bridge.                                  *)
(***************************************************************************)

\* C14: no set call hands the cache a string that is not valid UTF-8,
\* neither as the value nor as an element of the array.
C14_NoBadUtf8OnTheWire ==
    (vLast.op \in VSetOps /\ vLast.called) =>
        IF vLast.handed.type = "string"
          THEN g_utf8_validate(vLast.handed.v)
          ELSE vLast.handed.type = "array" =>
                   \A i \in 1..Len(vLast.handed.v) :
                       vLast.handed.v[i].type = "string" =>
                           g_utf8_validate(vLast.handed.v[i].v)

\* C15: what get_property returns for a property that exists and cannot be
\* converted differs from what it returns, to the same caller, for a
\* property that is absent.
C15_NotFoundIsDistinct ==
    (vLast.op = "get_property" /\ vWire # Unset /\ ~vOut.ret) =>
        [ret |-> vOut.ret, value |-> vOut.value] #
            blconf_channel_get_property(blconf_cache_lookup(EmptyTable, PFoo),
                                        VCallerValue(vLast.requested))

(***************************************************************************)
(* Further claims about the registry machine.                              *)
(***************************************************************************)

\* C18: the singleton map is created, inserted into and cleared only by the
\* thread that holds the lock, and the thread that runs the cache's prefetch
\* does not hold it.
C18_MapMutatedUnderLock ==
    [][/\ singletons' # singletons =>
              \/ lock = ShutdownThread /\ epoch' = epoch + 1
              \/ \E t \in Threads : /\ lock = t
                                    /\ thr[t].pc \in {"lookup", "insert"}
                                    /\ thr'[t] # thr[t]
       /\ \A t \in Threads :
              (thr[t].pc = "prefetch" /\ thr'[t].pc = "connect") => lock # t]_vars

\* a thread has inserted its new singleton and still holds the lock
C18_Witness ==
    \E t \in Threads :
        /\ lock = t
        /\ thr[t].pc = "unlock"
        /\ singletons.alloc
        /\ thr[t].channel # NullChannel
        /\ singletons.map[thr[t].name] = thr[t].channel

\* C19: a shutdown releases every singleton channel and leaves no registry;
\* a channel that is not a singleton keeps its fields, its cache and the
\* handler connected to it; with no registry a shutdown changes no channel
\* and no cache.
C19_ShutdownFrame ==
    [][epoch' = epoch + 1 =>
          /\ singletons' = [alloc |-> FALSE, map |-> EmptyMap]
          /\ \A i \in DOMAIN chan :
                 /\ (chan[i].is_singleton /\ chan[i].live) => ~chan'[i].live
                 /\ ~chan[i].is_singleton =>
                        /\ chan'[i] = chan[i]
                        /\ \A k \in CachesOf(i) : caches'[k] = caches[k]
          /\ ~singletons.alloc => chan' = chan /\ caches' = caches]_vars

\* after a shutdown: a released singleton, and a channel that is not a
\* singleton, alive with its cache and its handler
C19_Witness ==
    /\ epoch = 1
    /\ ~singletons.alloc
    /\ \E i, j \in DOMAIN chan :
           /\ chan[i].is_singleton
           /\ ~chan[i].live
           /\ ~chan[j].is_singleton
           /\ chan[j].live
           /\ chan[j].cache # NullCache
           /\ caches[chan[j].cache].nconnect = 1

(***************************************************************************)
(* Further claims about the GSettings backend.                             *)
(***************************************************************************)

\* C20: on a change event for a path with no pending write the backend
\* emits one untagged "changed" when a subscribed name is a literal prefix
\* of the path, however many are, and otherwise emits nothing and logs the
\* event as not expected; the pending writes and the subscriptions stay as
\* they were.
C20_SubscribedPrefixEmitsOnce ==
    (beLast.op = "event" /\ beLast.property \notin DOMAIN beLast.changed) =>
        /\ IF \E name \in beLast.subscribed :
                  /\ Len(name) <= Len(beLast.property)
                  /\ SubSeq(beLast.property, 1, Len(name)) = name
             THEN /\ beOut = <<[key |-> beLast.property, origin_tag |-> NullTag]>>
                  /\ ~beLast.warned
             ELSE /\ Len(beOut) = 0
                  /\ beLast.warned
        /\ changed_prop = beLast.changed
        /\ subscribed_prop = beLast.subscribed

\* an event for "/foo/bar" with no pending write, while "/foo" and
\* "/foo/bar" are both subscribed
C20_Witness ==
    /\ beLast.op = "event"
    /\ beLast.property = PFooBar
    /\ PFooBar \notin DOMAIN beLast.changed
    /\ {PFoo, PFooBar} \subseteq beLast.subscribed
    /\ Len(beOut) = 1
    /\ beOut[1].origin_tag = NullTag

(***************************************************************************)
(* Further claims about the operations of a channel.                       *)
(***************************************************************************)

\* C21: get_properties of NULL, "" or "/" asks the daemon for the channel's
\* property base, or for "/" when it has none; of any other base b it asks
\* for the property base followed by b, or for b when it has none.
C21_GetAllBase ==
    opLast.op = "get_properties" =>
        /\ Len(opLast.calls) = 1
        /\ opLast.calls[1].fn = "blconf_client_get_all_properties"
        /\ opLast.calls[1].path =
               IF opLast.property \in {NullStr, <<>>, Root}
                 THEN (IF opChan.property_base # NullStr
                         THEN opChan.property_base ELSE Root)
                 ELSE OpAbsolute(opLast.property)

\* C22: is_property_locked returns the daemon's answer for the path it
\* asked about when the call succeeds, and FALSE when the call fails,
\* whatever the call left in its output.
C22_LockQueryFailureIsNotLocked ==
    opLast.op = "is_property_locked" =>
        IF opLast.ok
          THEN opLast.ret = "TRUE" <=> opLast.calls[1].path \in opLocked
          ELSE opLast.ret = "FALSE"

\* a query that failed and left TRUE in its output
C22_Witness ==
    /\ opLast.op = "is_property_locked"
    /\ ~opLast.ok
    /\ opLast.value = OpLockedOut(TRUE)
    /\ opLast.ret = "FALSE"

(***************************************************************************)
(* Claims about the narrowing of the value bridge.                         *)
(***************************************************************************)

\* the 16-bit C value a get left for member or element i
VResult16(i) ==
    IF vLast.op = "get_array" THEN vOut.outs[i]
    ELSE ReadMem(vOut.mem, COffsetOf(vLast.tt.types, i), 2)

\* C23: a get_array or get_struct whose types fit the stored array succeeds
\* whatever the stored 32-bit values are, and leaves for a uint16 the stored
\* uint modulo 2^16 and for an int16 the stored int modulo 2^16 read as a
\* signed number.
C23_NarrowingNotRangeChecked ==
    (/\ vLast.op \in {"get_array", "get_struct"}
     /\ vWire.type = "array"
     /\ Len(vLast.tt.types) >= 1
     /\ Len(vWire.v) = Len(vLast.tt.types)
     /\ \A i \in 1..Len(vLast.tt.types) :
            /\ vLast.tt.types[i] \in Kinds
            /\ vWire.v[i].type = StructWireType(vLast.tt.types[i])) =>
        /\ vOut.ret
        /\ \A i \in 1..Len(vLast.tt.types) :
               /\ vLast.tt.types[i] = "uint16" =>
                      NumU16(VResult16(i)) = NumU32(vWire.v[i].v)[2]
               /\ vLast.tt.types[i] = "int16" =>
                      NumS16(VResult16(i)) =
                          LET m == NumS32(vWire.v[i].v) % 65536
                          IN IF m >= 32768 THEN m - 65536 ELSE m

\* the stored int -40000 read as an int16 member and the stored uint 70000
\* read as a uint16 member of the same struct
C23_Witness ==
    /\ vLast.op = "get_struct"
    /\ Len(vLast.tt.types) = 6
    /\ vLast.tt.types[2] = "int16"
    /\ vWire.v[2] = [type |-> "int", v |-> Bytes(-40000, 4)]
    /\ vOut.ret
    /\ NumS16(VResult16(2)) = 25536

(***************************************************************************)
(* Claims about the attribution of the backend's change events.            *)
(***************************************************************************)

\* C24: the event that a successful local write caused is emitted once, with
\* the origin tag of that write, whatever other writes to the key were made
\* before the event was delivered.
C24_EventCarriesItsWritesTag ==
    (beLast.op = "event" /\ beLast.cause.kind = "write") =>
        beOut = <<[key |-> beLast.property,
                   origin_tag |-> beLast.cause.origin_tag]>>

\* C25: the pending-write table holds a key only while a change event of a
\* local write or reset of that key is still to be delivered.
C25_PendingEntryHasAnEvent ==
    \A key \in DOMAIN changed_prop :
        \E i \in 1..Len(beQueue) :
            /\ beQueue[i].property = key
            /\ beQueue[i].channel_name = BeChannel.channel_name
            /\ beQueue[i].cause.kind \in {"write", "reset"}

\* C29: a backend write returns TRUE exactly when the value was converted and
\* the channel set succeeded.
C29_WriteReportsOutcome ==
    beLast.op = "write" => (beLast.ret <=> beLast.accepted)

(***************************************************************************)
(* Claims about the names the notification router emits.                   *)
(***************************************************************************)

\* C26: every property name a channel emits begins with "/": an event for a
\* sibling that only shares property_base as a string prefix is dropped.
\* (Stated for channels whose property_base does not itself end in "/".)
C26_EmittedNameIsAPath ==
    (\/ rtChan.property_base = NullStr
     \/ rtChan.property_base[Len(rtChan.property_base)] # "/") =>
        \A i \in 1..Len(rtOut) :
            /\ Len(rtOut[i].property) >= 1
            /\ rtOut[i].property[1] = "/"

(***************************************************************************)
(* Claims about the contents of the singleton registry.                    *)
(***************************************************************************)

\* C27: every entry of the registry maps a name to a Channel of that name
\* whose is_singleton flag is set, no two entries hold the same Channel, and
\* a Channel created as non-singleton is never in the registry.
C27_RegistryHoldsSingletonsByName ==
    /\ \A n \in ChannelNames :
          singletons.map[n] # NullChannel =>
              /\ singletons.map[n] \in DOMAIN chan
              /\ chan[singletons.map[n]].channel_name = n
              /\ chan[singletons.map[n]].is_singleton
    /\ \A n, m \in ChannelNames :
          (singletons.map[n] # NullChannel /\ singletons.map[n] = singletons.map[m])
              => n = m
    /\ \A i \in DOMAIN chan : ~chan[i].is_singleton => ~Registered(i)

\* the registry holds the singleton of a name while a non-singleton Channel
\* of the same name exists beside it
C27_Witness ==
    \E i, j \in DOMAIN chan :
        /\ chan[i].is_singleton /\ Registered(i)
        /\ ~chan[j].is_singleton /\ chan[j].live
        /\ chan[i].channel_name = chan[j].channel_name
        /\ singletons.map[chan[i].channel_name] = i

(***************************************************************************)
(* Claims about the disposal of a Channel.                                 *)
(***************************************************************************)

\* C28: once a Channel has been disposed, however often, none of the caches
\* made for it has a change handler of that Channel connected, each of them
\* has been released, and no cache is ever released more than once.
C28_DisposeDetachesAndReleasesOnce ==
    \A k \in DOMAIN caches :
        /\ caches[k].nunref <= 1
        /\ chan[caches[k].chan].disposed =>
               /\ caches[k].nconnect = 0
               /\ caches[k].nunref = 1

(***************************************************************************)
(* Claims about the daemon's signal handling.                              *)
(***************************************************************************)

\* main() returned 1 because the daemon object could not be created
DaemonStartFailed == dPc = "exited" /\ dStatus = <<1>>

\* C30: once a quit signal (SIGINT, SIGHUP, SIGTERM, SIGQUIT) has been
\* delivered with the handlers installed, the process eventually exits with
\* status 0, unless the daemon object fails to start.
C30_QuitSignalLeadsToExit ==
    dQuit ~> ((dPc = "exited" /\ dStatus = <<0>>) \/ DaemonStartFailed)
====
